---- MODULE Spec2Model ----
(***************************************************************************)
(* Model of the backend of tekvase/stock-market-app: the two rate-limited  *)
(* Finnhub gateways (server.js finnhubRequest, scheduler.js                *)
(* batchFinnhubRequest), the provider calls that bypass them, and the      *)
(* triggers of the AI daily picks pipeline.                                *)
(*                                                                         *)
(* Time is the value of Date.now() in milliseconds.  One action is one     *)
(* run-to-completion turn of the Node.js event loop: the code between two  *)
(* awaits that yield to a timer or to the network.                         *)
(***************************************************************************)
EXTENDS Integers, Sequences, FiniteSets, TLC

\* ------------------------------------------------------------------------
\* Bounds of the model
\* ------------------------------------------------------------------------
\* server.js:72 sets the ceiling to 55 and scheduler.js:229 to 55.  The model
\* is parametric in the ceiling and is checked for the small value below.
MAX_REQUESTS_PER_MINUTE == 2
BATCH_MAX_PER_MINUTE == 2
\* The clock advances in steps of TickMs milliseconds.
TickMs == 30000
\* Total number of fetches the callers start, per gateway.
MaxCalls == 4
\* The provider answers 429 to at most this many attempts of one fetch.
MaxAttempts == 3
\* Calls that reach the provider without a gateway.
MaxDirect == 2
\* Fetches and direct calls started in all, where both gateways run together.
MaxProviderCalls == 4
\* Fetches started in all, where the clock only runs towards a pending timer.
MaxFairCalls == 2
\* scheduler.js:504 skips a full run when more than 50 picks exist for today,
\* and QUICK_SEED_STOCKS (scheduler.js:407) lists 50 symbols.  The model is
\* parametric in the threshold and is checked for the small value below.
GuardThreshold == 1
\* Symbols the provider lists.
MaxSymbols == 2
\* Pipeline runs started in all.
MaxRuns == 3
\* Upstream WebSocket connections the model follows.
MaxSockets == 3
\* The chunk size of the upsert (50 in the code).
batchSize == 2
\* The candidates whose news a full run fetches (200 in the code).
NEWS_TARGETS == 1

\* ------------------------------------------------------------------------
\* Program constants
\* ------------------------------------------------------------------------
CACHE_TTL == 3600000
QUOTE_CACHE_TTL == 60000
WINDOW_MS == 60000
SLOT_POLL_MS == 2000
SLOT_MARGIN_MS == 100
RETRY_DELAY_MS == 10000
BATCH_RETRY_DELAY_MS == 15000
\* README "API Rate Limits": 60 calls per minute against the ceilings of 55.
\* The model keeps the relation: each ceiling is below the limit and their
\* sum is above it.
FINNHUB_LIMIT == MAX_REQUESTS_PER_MINUTE + 1
\* cleanupOldAiPicks(7)
RETENTION_DAYS == 7
DAY_MS == 24 * 60 * 60 * 1000
\* QUICK_SEED_STOCKS has as many symbols as the guard of the full run allows.
QuickSeedSize == GuardThreshold

\* The clock runs until one step past a full window.
MaxTime == WINDOW_MS + TickMs
\* Where the clock follows the timers every reservation may have to wait for
\* a window to age and for a cooldown.
FairHorizon ==
  MaxFairCalls * MaxAttempts * (WINDOW_MS + SLOT_MARGIN_MS + BATCH_RETRY_DELAY_MS + 2 * TickMs)

IClients == {"i1", "i2"}
BClients == {"b1", "b2"}
Clients == IClients \cup BClients
Endpoints == {"/quote", "/stock/profile2"}
Params == {"AAPL"}
\* response.data of a successful call: a JSON object or array (truthy).
Payloads == {"p1", "p2"}
\* null / undefined
NULL == "null"
Triggers == {"cron", "http", "startup"}
DirectPaths == {"/news", "/stock/option-chain", "scheduler.finnhubRequest"}
\* Socket.IO clients, and the symbols they send.
FClients == {"f1", "f2"}
Symbols == {"AAPL", "aapl", "MSFT"}
SocketIds == 1..MaxSockets

VARIABLES
  now,                \* Date.now()
  cache,              \* server.js cache: key -> [data, time]
  requestTimestamps,  \* server.js rate window
  batchTimestamps,    \* scheduler.js rate window
  req,                \* per caller: the fetch it has in progress
  done,               \* history: the fetch that settled last, with its result
  sent,               \* history: times of the network calls of the last minute
  calls,              \* history: number of fetches started per gateway
  runs,               \* per batch caller: the pipeline run it executes
  ai_daily_picks,     \* database table ai_daily_picks: one row per key
  started,            \* history: number of runs started per trigger
  ended,              \* history: the run that ended last, and how
  input,              \* the arguments of the function under examination
  output,             \* what the function returned
  wsManager,          \* the fields of the FinnhubWebSocketManager
  sockets,            \* the WebSocket objects made so far, with the provider's side
  timers,             \* number of pending setTimeout callbacks of the manager
  frontend,           \* per Socket.IO client: connected, and the symbols it wants
  wsHist              \* history: sockets made, disconnect() called

gvars == <<now, cache, requestTimestamps, batchTimestamps, req, done, sent, calls>>
pvars == <<runs, ai_daily_picks, started, ended>>
fvars == <<input, output>>
wvars == <<wsManager, sockets, timers, frontend, wsHist>>
vars == <<now, cache, requestTimestamps, batchTimestamps, req, done, sent, calls,
          runs, ai_daily_picks, started, ended, input, output,
          wsManager, sockets, timers, frontend, wsHist>>

Min(a, b) == IF a < b THEN a ELSE b

Last(s) == s[Len(s)]

\* ------------------------------------------------------------------------
\* server.js: cache
\* ------------------------------------------------------------------------
CacheKey(endpoint, params) == <<endpoint, params>>

\* Mutant: every endpoint gets the short lifetime of a quote.
TTLOfQuoteForAll(endpoint) == QUOTE_CACHE_TTL

TTLOf(endpoint) == IF endpoint = "/quote" THEN QUOTE_CACHE_TTL ELSE CACHE_TTL

\* Mutant: the age of the entry is not looked at.
getCachedAnyAge(key, ttl) ==
  IF key \in DOMAIN cache THEN cache[key].data ELSE NULL

getCached(key, ttl) ==
  IF key \in DOMAIN cache /\ now - cache[key].time < ttl
    THEN cache[key].data
    ELSE NULL

setCache(key, data) ==
  [k \in DOMAIN cache \cup {key} |->
     IF k = key THEN [data |-> data, time |-> now] ELSE cache[k]]

\* catch branch: cache[cacheKey], whatever its age
StaleData(key) == IF key \in DOMAIN cache THEN cache[key].data ELSE NULL

\* ------------------------------------------------------------------------
\* server.js: rate limiter
\* ------------------------------------------------------------------------
\* Mutant: old timestamps are never dropped.
EvictOldNever(ts) == ts

RECURSIVE EvictOld(_)
EvictOld(ts) ==
  IF Len(ts) > 0 /\ now - Head(ts) > WINDOW_MS THEN EvictOld(Tail(ts)) ELSE ts

\* Mutant: off by one at the ceiling.
canMakeRequestOffByOne(ts) == Len(ts) <= MAX_REQUESTS_PER_MINUTE

canMakeRequest(ts) == Len(ts) < MAX_REQUESTS_PER_MINUTE

SlotWait(ts) == Min(WINDOW_MS - (now - Head(ts)) + SLOT_MARGIN_MS, SLOT_POLL_MS)

\* Mutant: the retry is sent at once.
RetryAtOnce == RETRY_DELAY_MS - RETRY_DELAY_MS

RetryDelay == RETRY_DELAY_MS

\* ------------------------------------------------------------------------
\* scheduler.js: batch rate limiter
\* ------------------------------------------------------------------------
RECURSIVE EvictOldBatch(_)
EvictOldBatch(ts) ==
  IF Len(ts) > 0 /\ Head(ts) < now - WINDOW_MS THEN EvictOldBatch(Tail(ts)) ELSE ts

\* Mutant: off by one at the ceiling.
batchWindowFullOffByOne(ts) == Len(ts) > BATCH_MAX_PER_MINUTE

batchWindowFull(ts) == Len(ts) >= BATCH_MAX_PER_MINUTE

BatchSlotWait(ts) == Head(ts) + WINDOW_MS - now + SLOT_MARGIN_MS

BatchRetryDelay == BATCH_RETRY_DELAY_MS

\* ------------------------------------------------------------------------
\* State of one caller
\* ------------------------------------------------------------------------
NoResult == [src |-> "none", data |-> NULL]

\* by: the caller a settled fetch belonged to; pc: where the fetch stands; timer: the deadline of its pending setTimeout;
\* hist: the outcomes of its network attempts; t429: when the last 429 came;
\* got: response.data of its successful attempt; res, nres: what the caller
\* received and how often; age: the age of the cache entry handed back.
IdleReq ==
  [by |-> "none", pc |-> "idle", key |-> CacheKey("/quote", "AAPL"), timer |-> 0,
   hist |-> <<>>, t429 |-> -1, got |-> NULL,
   res |-> NoResult, nres |-> 0, age |-> -1]

\* pc: the await the run stands at; today: the pick_date it computed; todo:
\* the symbols its loop has still to fetch; built: the picks it has so far.
IdleRun == [pc |-> "idle", kind |-> "none", today |-> 0, todo |-> <<>>, built |-> <<>>]

\* No run has ended yet.
NoEnd == [by |-> "none", kind |-> "none", how |-> "none"]

\* A WebSocket object: its readyState, and the symbols the provider streams
\* on the connection (subscribe messages received less unsubscribe messages).
NoSocket == [readyState |-> "NONE", upstream |-> {}]
NewSocket == [readyState |-> "CONNECTING", upstream |-> {}]

\* No function is under examination.
NoInput == [fn |-> "none"]
NoOutput == [fn |-> "none"]

InitServer ==
  /\ now = 0
  /\ cache = <<>>
  /\ requestTimestamps = <<>>
  /\ batchTimestamps = <<>>
  /\ req = [c \in Clients |-> IdleReq]
  /\ done = IdleReq
  /\ sent = [g \in {"interactive", "batch", "direct"} |-> <<>>]
  /\ calls = [g \in {"interactive", "batch"} |-> 0]
  /\ runs = [c \in BClients |-> IdleRun]
  /\ started = [t \in Triggers |-> 0]
  /\ ended = NoEnd
  /\ wsManager = [ws |-> 1, subscribedSymbols |-> {}, latestPrices |-> {},
                  reconnectTimer |-> FALSE, isConnected |-> FALSE]
  /\ sockets = [id \in SocketIds |-> IF id = 1 THEN NewSocket ELSE NoSocket]
  /\ timers = 0
  /\ frontend = [f \in FClients |-> [connected |-> FALSE, wants |-> {}]]
  /\ wsHist = [opened |-> 1, stopped |-> FALSE, openedAtStop |-> 0]

Init ==
  /\ InitServer
  /\ ai_daily_picks = {}
  /\ input = NoInput
  /\ output = NoOutput

\* The caller's promise settles: one result is delivered.
Settled(c, r, src, data, age) ==
  [r EXCEPT !.by = c, !.pc = "settled", !.timer = 0, !.t429 = -1,
            !.res = [src |-> src, data |-> data],
            !.nres = @ + 1, !.age = age]

Settle(c, r, src, data, age) ==
  /\ req' = [req EXCEPT ![c] = IdleReq]
  /\ done' = Settled(c, r, src, data, age)

Issue(r) == [r EXCEPT !.pc = "inflight", !.timer = 0]

AgeOf(key) == now - cache[key].time

\* ------------------------------------------------------------------------
\* server.js: waitForSlot / finnhubRequest
\* ------------------------------------------------------------------------
\* check() of waitForSlot for the fetch r of caller c and, on a free slot,
\* the axios.get that follows the await in the same turn.
Check(c, r) ==
  LET ts == EvictOld(requestTimestamps) IN
  IF canMakeRequest(ts)
    THEN /\ requestTimestamps' = Append(ts, now)
         /\ req' = [req EXCEPT ![c] = Issue(r)]
         /\ sent' = [sent EXCEPT !["interactive"] = Append(@, now)]
         /\ UNCHANGED done
    ELSE /\ requestTimestamps' = ts
         /\ req' = [req EXCEPT ![c] = [r EXCEPT !.pc = "waiting",
                                                !.timer = now + SlotWait(ts)]]
         /\ UNCHANGED <<sent, done>>

\* finnhubRequest from its entry to its first await that yields.
EnterFinnhubRequest(c, r) ==
  LET cached == getCached(r.key, TTLOf(r.key[1])) IN
  IF cached # NULL
    THEN /\ Settle(c, r, "cache", cached, AgeOf(r.key))
         /\ UNCHANGED <<requestTimestamps, sent>>
    ELSE Check(c, r)

\* A route handler calls finnhubRequest(endpoint, params).
FinnhubRequest(c, endpoint, params) ==
  /\ c \in IClients
  /\ req[c].pc = "idle"
  /\ calls["interactive"] < MaxCalls
  /\ EnterFinnhubRequest(c, [IdleReq EXCEPT !.key = CacheKey(endpoint, params)])
  /\ calls' = [calls EXCEPT !["interactive"] = @ + 1]
  /\ UNCHANGED <<now, cache, batchTimestamps, pvars, fvars, wvars>>

\* setTimeout(check, ...) of waitForSlot fires.
SlotTimer(c) ==
  /\ c \in IClients
  /\ req[c].pc = "waiting"
  /\ now >= req[c].timer
  /\ Check(c, req[c])
  /\ UNCHANGED <<now, cache, batchTimestamps, calls, pvars, fvars, wvars>>

\* axios.get resolves: setCache and return response.data.
ResponseOk(c, data) ==
  /\ c \in IClients
  /\ req[c].pc = "inflight"
  /\ cache' = setCache(req[c].key, data)
  /\ Settle(c, [req[c] EXCEPT !.hist = Append(@, "ok"), !.got = data],
            "network", data, -1)
  /\ UNCHANGED <<now, requestTimestamps, batchTimestamps, sent, calls, pvars, fvars, wvars>>

\* axios.get rejects with status 429: sleep, then finnhubRequest again.
Response429(c) ==
  /\ c \in IClients
  /\ req[c].pc = "inflight"
  /\ Len(req[c].hist) + 1 < MaxAttempts
  /\ req' = [req EXCEPT ![c].pc = "cooldown", ![c].hist = Append(@, "429"),
                        ![c].t429 = now, ![c].timer = now + RetryDelay]
  /\ UNCHANGED <<now, cache, requestTimestamps, batchTimestamps, done, sent, calls, pvars, fvars, wvars>>

\* Mutant: the catch branch accepts a fresh entry only.
ErrorResultFreshOnly(key) ==
  IF getCached(key, TTLOf(key[1])) # NULL
    THEN [src |-> "stale", data |-> StaleData(key)]
    ELSE [src |-> "error", data |-> NULL]

\* What the catch branch hands back for an error other than 429.
ErrorResult(key) ==
  IF StaleData(key) # NULL
    THEN [src |-> "stale", data |-> StaleData(key)]
    ELSE [src |-> "error", data |-> NULL]

\* axios.get rejects with another error: stale cache entry, or throw.
ResponseError(c) ==
  /\ c \in IClients
  /\ req[c].pc = "inflight"
  /\ LET out == ErrorResult(req[c].key)
         r == [req[c] EXCEPT !.hist = Append(@, "err")]
     IN Settle(c, r, out.src, out.data,
               IF out.src = "stale" THEN AgeOf(r.key) ELSE -1)
  /\ UNCHANGED <<now, cache, requestTimestamps, batchTimestamps, sent, calls, pvars, fvars, wvars>>

\* The 10 s sleep ends: return finnhubRequest(endpoint, params).
Retry(c) ==
  /\ c \in IClients
  /\ req[c].pc = "cooldown"
  /\ now >= req[c].timer
  /\ EnterFinnhubRequest(c, req[c])
  /\ UNCHANGED <<now, cache, batchTimestamps, calls, pvars, fvars, wvars>>

\* ------------------------------------------------------------------------
\* scheduler.js: waitForBatchSlot / batchFinnhubRequest
\* ------------------------------------------------------------------------
\* waitForBatchSlot and, on a free slot, the axios.get of the same turn.
waitForBatchSlot(c, r) ==
  LET ts == EvictOldBatch(batchTimestamps) IN
  IF batchWindowFull(ts)
    THEN /\ batchTimestamps' = ts
         /\ req' = [req EXCEPT ![c] = [r EXCEPT !.pc = "waiting",
                                                !.timer = now + BatchSlotWait(ts)]]
         /\ UNCHANGED sent
    ELSE /\ batchTimestamps' = Append(ts, now)
         /\ req' = [req EXCEPT ![c] = Issue(r)]
         /\ sent' = [sent EXCEPT !["batch"] = Append(@, now)]

\* batchFinnhubRequest(endpoint, params) from its entry to its first await
\* that yields.
batchFinnhubRequest(c) ==
  /\ waitForBatchSlot(c, IdleReq)
  /\ calls' = [calls EXCEPT !["batch"] = @ + 1]

\* ------------------------------------------------------------------------
\* scheduler.js: the runs of the AI daily picks pipeline
\* ------------------------------------------------------------------------
\* today of a run: new Date().toISOString().split('T')[0], as a day number.
Today == now \div DAY_MS

SeqOf(n) == [i \in 1..n |-> i]

\* The symbols the provider lists for the exchange.
allSymbols == SeqOf(MaxSymbols)

QUICK_SEED_STOCKS == SeqOf(QuickSeedSize)

\* A response the checks of the run accept: a non-empty symbol list, analyst
\* data with a price, figures that pass the filters.
\* Mutant: the run goes on with whatever came back.
UsableAny(data) == TRUE

Usable(data) == data = "p1"

\* How a run that returns from the await it stands at has ended.
Ended(c, run) ==
  CASE run.pc = "guard" -> [by |-> c, kind |-> run.kind, how |-> "skipped"]
    [] run.pc = "universe" -> [by |-> c, kind |-> run.kind, how |-> "no symbols"]
    [] run.pc = "building" -> [by |-> c, kind |-> run.kind, how |-> "no picks"]
    [] run.pc = "saving" -> [by |-> c, kind |-> run.kind, how |-> "saved"]
    [] run.pc = "cleanup" -> [by |-> c, kind |-> run.kind, how |-> "completed"]
    [] OTHER -> ended

\* return, or the end of the async function.
Return(c) ==
  /\ req' = [req EXCEPT ![c] = IdleReq]
  /\ runs' = [runs EXCEPT ![c] = IdleRun]
  /\ ended' = Ended(c, runs[c])
  /\ UNCHANGED <<batchTimestamps, sent, calls, ai_daily_picks, started>>

\* After the loop over the symbols: the picks are saved; a full run with none
\* goes on to the cleanup, a quick seed with none ends.
AfterLoop(run) ==
  IF run.built # <<>> THEN [run EXCEPT !.pc = "saving"]
  ELSE IF run.kind = "full" THEN [run EXCEPT !.pc = "cleanup"]
  ELSE IdleRun

\* The loop over the symbols, from one await to the next.  One fetch stands
\* for the provider calls the run makes for a symbol.
Proceed(c, run) ==
  IF run.todo # <<>>
    THEN /\ batchFinnhubRequest(c)
         /\ runs' = [runs EXCEPT ![c] = run]
         /\ UNCHANGED <<ai_daily_picks, started, ended>>
    ELSE /\ req' = [req EXCEPT ![c] = IdleReq]
         /\ runs' = [runs EXCEPT ![c] = AfterLoop(run)]
         /\ ended' = IF AfterLoop(run) = IdleRun THEN Ended(c, run) ELSE ended
         /\ UNCHANGED <<batchTimestamps, sent, calls, ai_daily_picks, started>>

\* The caller of batchFinnhubRequest goes on with its result in the same turn.
\* ------------------------------------------------------------------------
\* Phase 4 and 5 filters of refreshAiDailyPicks
\* ------------------------------------------------------------------------
\* A metric the provider may leave out: Null, or Num(n).
Null == <<>>
Num(n) == <<n>>
IsNull(x) == x = Null
Val(x) == x[1]

\* avg_volume is counted in units of 100K shares (0.1 million), market_cap in
\* millions, sentiment_score in hundredths.
LIQUIDITY_VOLUME == 1
LIQUIDITY_MARKET_CAP == 300
SENTIMENT_FLOOR == -30

\* above_50_ma: week13Return !== null ? week13Return > 0 : false
AboveMa(week13Return) ==
  IF ~IsNull(week13Return) THEN Val(week13Return) > 0 ELSE FALSE

\* s.avg_volume > 0.1 || s.market_cap > 300
liquidityGate(s) ==
  s.avg_volume > LIQUIDITY_VOLUME \/ s.market_cap > LIQUIDITY_MARKET_CAP

\* Mutant: a missing growth figure passes.
growthGateNullPasses(s) ==
  \/ IsNull(s.eps_growth) \/ Val(s.eps_growth) > 0
  \/ IsNull(s.revenue_growth) \/ Val(s.revenue_growth) > 0

\* (s.eps_growth !== null && s.eps_growth > 0) ||
\* (s.revenue_growth !== null && s.revenue_growth > 0)
growthGate(s) ==
  \/ (~IsNull(s.eps_growth) /\ Val(s.eps_growth) > 0)
  \/ (~IsNull(s.revenue_growth) /\ Val(s.revenue_growth) > 0)

\* s.above_50_ma === true
trendGate(s) == s.above_50_ma = TRUE

\* s.sentiment_score >= -0.3
sentimentGate(s) == s.sentiment_score >= SENTIMENT_FLOOR

\* The gates in the order the run applies them.
GateNames == <<"liquidity", "growth", "trend", "sentiment">>

Gate(name, s) ==
  CASE name = "liquidity" -> liquidityGate(s)
    [] name = "growth" -> growthGate(s)
    [] name = "trend" -> trendGate(s)
    [] name = "sentiment" -> sentimentGate(s)

\* filtered = filtered.filter(gate)
Filter(name, filtered) == {s \in filtered : Gate(name, s)}

PassesGates(s) == \A k \in DOMAIN GateNames : Gate(GateNames[k], s)

\* ------------------------------------------------------------------------
\* calculateAiScore and assignCategory
\* ------------------------------------------------------------------------
\* x || 0 for a metric that may be null.
OrZero(x) == IF IsNull(x) THEN 0 ELSE Val(x)

\* Mutant: no clamping at all.
ClampNone(lo, hi, x) == x

\* Math.max(lo, Math.min(hi, x))
Clamp(lo, hi, x) == IF x < lo THEN lo ELSE IF x > hi THEN hi ELSE x

\* Mutant: the analyst share weighs 40% and growth 10%.
WeightedAnalystHeavy(buyRatio, growth2, trend, change, sentiment) ==
  48 * buyRatio + 4 * (growth2 + 100) + 40 * (trend + 30)
    + 180 * (change + 5) + 9 * (sentiment + 100)

\* analystComponent * 0.30 + growthComponent * 0.20 + trendComponent * 0.20
\*   + momentumComponent * 0.15 + sentimentComponent * 0.15, times 120 to
\* stay in the integers.  growth2 is twice the clamped average growth, so
\* growthComponent = (growth2 + 100) / 3; trendComponent = (trend + 30) * 5 / 3;
\* momentumComponent = (change + 5) * 10; sentiment is in hundredths, so
\* sentimentComponent = (sentiment + 100) / 2.
Weighted(buyRatio, growth2, trend, change, sentiment) ==
  36 * buyRatio + 8 * (growth2 + 100) + 40 * (trend + 30)
    + 180 * (change + 5) + 9 * (sentiment + 100)

\* Math.round of n / 120: the nearest integer, halves upwards.
Round120(n) == (n + 60) \div 120

\* calculateAiScore(buyRatio, changePercent, sentimentScore, epsGrowth,
\*                  revenueGrowth, week13Return), sentimentScore in hundredths.
calculateAiScore(buyRatio, changePercent, sentimentScore, epsGrowth, revenueGrowth, week13Return) ==
  LET clampedGrowth2 == Clamp(-100, 200, OrZero(epsGrowth) + OrZero(revenueGrowth))
      clampedTrend == Clamp(-30, 30, OrZero(week13Return))
      clampedChange == Clamp(-5, 5, OrZero(changePercent))
      composite == Round120(Weighted(buyRatio, clampedGrowth2, clampedTrend,
                                     clampedChange, sentimentScore))
  IN  Clamp(0, 100, composite)

\* Mutant: the breakout rule is tried first.
assignCategoryBreakoutFirst(pick) ==
  IF OrZero(pick.change_percent) > 2 /\ pick.buy_ratio >= 50 THEN "Breakout Candidates"
  ELSE IF pick.price < 50 /\ pick.ai_score > 60 THEN "Low-Cost Opportunities"
  ELSE IF pick.price >= 50 /\ pick.price <= 300 /\ OrZero(pick.change_percent) > 0
    THEN "Mid-Cap Momentum"
  ELSE IF pick.price > 300 /\ pick.buy_ratio >= 60 THEN "High-Value Premium"
  ELSE NULL

\* assignCategory(pick): the first rule that matches, else null.
assignCategory(pick) ==
  IF pick.price < 50 /\ pick.ai_score > 60 THEN "Low-Cost Opportunities"
  ELSE IF pick.price >= 50 /\ pick.price <= 300 /\ OrZero(pick.change_percent) > 0
    THEN "Mid-Cap Momentum"
  ELSE IF pick.price > 300 /\ pick.buy_ratio >= 60 THEN "High-Value Premium"
  ELSE IF OrZero(pick.change_percent) > 2 /\ pick.buy_ratio >= 50 THEN "Breakout Candidates"
  ELSE NULL

\* An enriched candidate from its metrics.
Enriched(avg_volume, market_cap, eps_growth, revenue_growth, week13Return, sentiment) ==
  [avg_volume |-> avg_volume, market_cap |-> market_cap,
   eps_growth |-> eps_growth, revenue_growth |-> revenue_growth,
   week_13_return |-> week13Return, above_50_ma |-> AboveMa(week13Return),
   sentiment_score |-> sentiment]

\* What the responses stand for: "p1" is a liquid, growing stock with a
\* 13-week return of 10, "p2" the same stock with a 13-week return of -5.
EnrichedOf(data) ==
  Enriched(2, 301, Num(25), Num(20), IF data = "p1" THEN Num(10) ELSE Num(-5), 50)

Above50Ma(data) == EnrichedOf(data).above_50_ma

\* Whether the run keeps the symbol: both kinds need a quote with c > 0; the
\* full run then applies its gates, the quick seed pushes the pick as it is.
Kept(kind, data) == data # NULL /\ (kind = "full" => PassesGates(EnrichedOf(data)))

Resume(c, data) ==
  LET run == runs[c] IN
  CASE run.pc = "universe" ->
         IF Usable(data)
           THEN Proceed(c, [run EXCEPT !.pc = "building", !.todo = allSymbols])
           ELSE Return(c)
    [] run.pc = "building" ->
         Proceed(c, [run EXCEPT !.todo = Tail(@),
                                !.built = IF Kept(run.kind, data)
                                            THEN Append(@, [symbol |-> Head(run.todo),
                                                            data |-> data])
                                            ELSE @])
    [] OTHER -> Return(c)

\* ------------------------------------------------------------------------
\* scheduler.js: batchFinnhubRequest, the turns after its first
\* ------------------------------------------------------------------------
\* Some code of the scheduler calls batchFinnhubRequest(endpoint, params).
BatchCall(c) ==
  /\ c \in BClients
  /\ req[c].pc = "idle"
  /\ runs[c].pc = "idle"
  /\ calls["batch"] < MaxCalls
  /\ batchFinnhubRequest(c)
  /\ UNCHANGED <<now, cache, requestTimestamps, done, pvars, fvars, wvars>>

\* The sleep of waitForBatchSlot ends: return waitForBatchSlot().
BatchSlotTimer(c) ==
  /\ c \in BClients
  /\ req[c].pc = "waiting"
  /\ now >= req[c].timer
  /\ waitForBatchSlot(c, req[c])
  /\ UNCHANGED <<now, cache, requestTimestamps, done, calls, pvars, fvars, wvars>>

\* axios.get resolves: return response.data.
BatchResponseOk(c, data) ==
  /\ c \in BClients
  /\ req[c].pc = "inflight"
  /\ done' = Settled(c, [req[c] EXCEPT !.hist = Append(@, "ok"), !.got = data],
                     "network", data, -1)
  /\ Resume(c, data)
  /\ UNCHANGED <<now, cache, requestTimestamps, fvars, wvars>>

\* axios.get rejects with status 429: sleep, then batchFinnhubRequest again.
BatchResponse429(c) ==
  /\ c \in BClients
  /\ req[c].pc = "inflight"
  /\ Len(req[c].hist) + 1 < MaxAttempts
  /\ req' = [req EXCEPT ![c].pc = "cooldown", ![c].hist = Append(@, "429"),
                        ![c].t429 = now, ![c].timer = now + BatchRetryDelay]
  /\ UNCHANGED <<now, cache, requestTimestamps, batchTimestamps, done, sent, calls, pvars, fvars, wvars>>

\* Any other error, the 10 s axios timeout included: return null.
BatchResponseError(c) ==
  /\ c \in BClients
  /\ req[c].pc = "inflight"
  /\ done' = Settled(c, [req[c] EXCEPT !.hist = Append(@, "err")], "null", NULL, -1)
  /\ Resume(c, NULL)
  /\ UNCHANGED <<now, cache, requestTimestamps, fvars, wvars>>

\* The 15 s sleep ends: return batchFinnhubRequest(endpoint, params).
BatchRetry(c) ==
  /\ c \in BClients
  /\ req[c].pc = "cooldown"
  /\ now >= req[c].timer
  /\ waitForBatchSlot(c, req[c])
  /\ UNCHANGED <<now, cache, requestTimestamps, done, calls, pvars, fvars, wvars>>

\* ------------------------------------------------------------------------
\* scheduler.js / server.js: triggers and database turns of the pipeline
\* ------------------------------------------------------------------------
\* An async pipeline function is called: it takes today and awaits
\* db.getAiPicksCount(today).
StartRun(c, kind, trigger) ==
  /\ c \in BClients
  /\ runs[c].pc = "idle"
  /\ req[c].pc = "idle"
  /\ started["cron"] + started["http"] + started["startup"] < MaxRuns
  /\ runs' = [runs EXCEPT ![c] = [IdleRun EXCEPT !.pc = "guard", !.kind = kind,
                                                 !.today = Today]]
  /\ started' = [started EXCEPT ![trigger] = @ + 1]
  /\ UNCHANGED <<gvars, ai_daily_picks, ended, fvars, wvars>>

\* initializeScheduler: quickSeedPicks() when the process starts.
StartupQuickSeed(c) ==
  /\ \A t \in Triggers : started[t] = 0
  /\ StartRun(c, "seed", "startup")

\* cron '0 1 * * *': refreshAiDailyPicks(), once in the time the model spans.
CronAiPicksJob(c) ==
  /\ started["cron"] = 0
  /\ StartRun(c, "full", "cron")

\* GET /api/ai-picks/trigger with the right key: refreshAiDailyPicks() in the
\* background.
GetAiPicksTrigger(c) == StartRun(c, "full", "http")

getAiPicksCount(date) == Cardinality({row \in ai_daily_picks : row.pick_date = date})

\* Mutant: the guard of the full run lets every run pass.
GuardSkipsNever(existingCount) == FALSE

\* refreshAiDailyPicks: if (existingCount > 50) return
GuardSkips(existingCount) == existingCount > GuardThreshold

\* refreshAiDailyPicks after the count: skip, or phase 1, the symbol listing.
refreshAiDailyPicksGuard(c) ==
  /\ runs[c].pc = "guard"
  /\ runs[c].kind = "full"
  /\ IF GuardSkips(getAiPicksCount(runs[c].today))
       THEN Return(c)
       ELSE /\ batchFinnhubRequest(c)
            /\ runs' = [runs EXCEPT ![c].pc = "universe"]
            /\ UNCHANGED <<ai_daily_picks, started, ended>>
  /\ UNCHANGED <<now, cache, requestTimestamps, done, fvars, wvars>>

\* quickSeedPicks after the count: skip, or the loop over QUICK_SEED_STOCKS.
quickSeedPicksGuard(c) ==
  /\ runs[c].pc = "guard"
  /\ runs[c].kind = "seed"
  /\ IF getAiPicksCount(runs[c].today) > 0
       THEN Return(c)
       ELSE Proceed(c, [runs[c] EXCEPT !.pc = "building", !.todo = QUICK_SEED_STOCKS])
  /\ UNCHANGED <<now, cache, requestTimestamps, done, fvars, wvars>>

\* The columns of INSERT INTO ai_daily_picks (...).
InsertColumns ==
  {"symbol", "name", "sector", "logo", "price", "change", "change_percent",
   "strong_buy", "buy", "hold", "sell", "strong_sell", "buy_ratio",
   "consensus", "total_analysts", "ai_score", "sentiment_score",
   "sentiment_label", "momentum_score", "reason_text", "category",
   "news_positive_count", "news_negative_count", "news_total_count",
   "avg_volume", "market_cap", "eps_growth", "revenue_growth", "pe_ratio",
   "week_13_return", "above_50_ma", "pick_date", "updated_at"}

\* Mutant: the SET list forgets the category.
ConflictUpdateColumnsNoCategory ==
  {"name", "sector", "logo", "price", "change", "change_percent",
   "strong_buy", "buy", "hold", "sell", "strong_sell", "buy_ratio",
   "consensus", "total_analysts", "ai_score", "sentiment_score",
   "sentiment_label", "momentum_score", "reason_text",
   "news_positive_count", "news_negative_count", "news_total_count",
   "avg_volume", "market_cap", "eps_growth", "revenue_growth", "pe_ratio",
   "week_13_return", "above_50_ma", "updated_at"}

\* The columns of ON CONFLICT (symbol, pick_date) DO UPDATE SET ...
ConflictUpdateColumns ==
  {"name", "sector", "logo", "price", "change", "change_percent",
   "strong_buy", "buy", "hold", "sell", "strong_sell", "buy_ratio",
   "consensus", "total_analysts", "ai_score", "sentiment_score",
   "sentiment_label", "momentum_score", "reason_text", "category",
   "news_positive_count", "news_negative_count", "news_total_count",
   "avg_volume", "market_cap", "eps_growth", "revenue_growth", "pe_ratio",
   "week_13_return", "above_50_ma", "updated_at"}

\* The columns that hold the fields of a pick.
DataColumns == InsertColumns \ {"symbol", "pick_date", "updated_at"}

\* key = p.symbol + '|' + p.pick_date; also the columns of the unique index.
KeyOf(p) == <<p.symbol, p.pick_date>>

\* picks.filter(p => { if (seen.has(key)) return false; seen.add(key); return true })
RECURSIVE UniqueFrom(_, _)
UniqueFrom(picks, seen) ==
  IF picks = <<>> THEN <<>>
  ELSE IF KeyOf(Head(picks)) \in seen THEN UniqueFrom(Tail(picks), seen)
  ELSE <<Head(picks)>> \o UniqueFrom(Tail(picks), seen \cup {KeyOf(Head(picks))})

unique(picks) == UniqueFrom(picks, {})

\* The row VALUES (..., NOW()) inserts for an item; created_at takes its
\* DEFAULT NOW().
InsertRow(item) ==
  [symbol |-> item.symbol, pick_date |-> item.pick_date,
   created_at |-> now, updated_at |-> now,
   cols |-> [col \in DataColumns |-> item.cols[col]]]

\* DO UPDATE SET col = EXCLUDED.col, ..., updated_at = NOW()
OnConflict(old, item) ==
  [old EXCEPT !.cols = [col \in DataColumns |->
                          IF col \in ConflictUpdateColumns
                            THEN item.cols[col] ELSE old.cols[col]],
              !.updated_at = IF "updated_at" \in ConflictUpdateColumns THEN now ELSE @]

\* Mutant: a plain INSERT into a table without the unique index.
UpsertChunkInsertOnly(store, batch) ==
  store \cup {InsertRow(batch[i]) : i \in DOMAIN batch}

\* One INSERT ... ON CONFLICT statement for the items of a chunk.
UpsertChunk(store, batch) ==
  {row \in store : \A i \in DOMAIN batch : KeyOf(batch[i]) # KeyOf(row)}
    \cup UNION {IF \E old \in store : KeyOf(old) = KeyOf(batch[i])
                  THEN {OnConflict(old, batch[i]) : old \in {o \in store : KeyOf(o) = KeyOf(batch[i])}}
                  ELSE {InsertRow(batch[i])} : i \in DOMAIN batch}

\* Mutant: inserted += batch.length outside the try.
CountAfterAlways(inserted, batch, failed) == inserted + Len(batch)

\* inserted += batch.length, skipped by the catch.
CountAfter(inserted, batch, failed) ==
  IF failed THEN inserted ELSE inserted + Len(batch)

\* The chunk that starts at item i (from 1).
ChunkAt(items, i) == SubSeq(items, i, Min(i + batchSize - 1, Len(items)))

\* The starts of the chunks of a list of n items.
ChunkStarts(n) == {i \in 1..n : (i - 1) % batchSize = 0}

\* for (let i = 0; i < unique.length; i += batchSize) { try { await pool.query(...) } catch {} }
\* fails: the chunks whose pool.query rejects.
RECURSIVE UpsertLoop(_, _, _, _, _)
UpsertLoop(store, items, i, fails, inserted) ==
  IF i > Len(items) THEN [store |-> store, inserted |-> inserted]
  ELSE UpsertLoop(IF i \in fails THEN store ELSE UpsertChunk(store, ChunkAt(items, i)),
                  items, i + batchSize, fails,
                  CountAfter(inserted, ChunkAt(items, i), i \in fails))

\* db.bulkUpsertAiPicks(picks): the table afterwards and the count returned.
bulkUpsertAiPicks(picks, fails) ==
  UpsertLoop(ai_daily_picks, unique(picks), 1, fails, 0)

\* A field of a pick, as the run of this kind computes it from the response.
FieldOf(kind, data, col) ==
  IF col = "above_50_ma" THEN Above50Ma(data) ELSE <<kind, data>>

\* The list a run saves: pick.pick_date = today.
PicksOf(run) ==
  [i \in DOMAIN run.built |->
     [symbol |-> run.built[i].symbol, pick_date |-> run.today,
      cols |-> [col \in DataColumns |-> FieldOf(run.kind, run.built[i].data, col)]]]

\* Mutant: a pick exactly daysToKeep days old is deleted as well.
cleanupOldAiPicksInclusive(daysToKeep) ==
  {row \in ai_daily_picks : ~(row.pick_date * DAY_MS <= now - daysToKeep * DAY_MS)}

\* DELETE ... WHERE pick_date < NOW() - daysToKeep days
cleanupOldAiPicks(daysToKeep) ==
  {row \in ai_daily_picks : ~(row.pick_date * DAY_MS < now - daysToKeep * DAY_MS)}

\* db.bulkUpsertAiPicks resolves.
UpsertDone(c) ==
  /\ c \in BClients
  /\ runs[c].pc = "saving"
  /\ \E fails \in SUBSET ChunkStarts(Len(PicksOf(runs[c]))) :
       ai_daily_picks' = bulkUpsertAiPicks(PicksOf(runs[c]), fails).store
  /\ runs' = [runs EXCEPT ![c] = IF runs[c].kind = "full"
                                   THEN [runs[c] EXCEPT !.pc = "cleanup"]
                                   ELSE IdleRun]
  /\ ended' = IF runs[c].kind = "full" THEN ended ELSE Ended(c, runs[c])
  /\ UNCHANGED <<gvars, started, fvars, wvars>>

\* db.cleanupOldAiPicks(7) resolves: the full run ends.
CleanupDone(c) ==
  /\ c \in BClients
  /\ runs[c].pc = "cleanup"
  /\ ai_daily_picks' = cleanupOldAiPicks(RETENTION_DAYS)
  /\ runs' = [runs EXCEPT ![c] = IdleRun]
  /\ ended' = Ended(c, runs[c])
  /\ UNCHANGED <<gvars, started, fvars, wvars>>

\* ------------------------------------------------------------------------
\* Provider calls outside the gateways
\* ------------------------------------------------------------------------
\* GET /api/news, GET /api/options-chain/:symbol and scheduler.js
\* finnhubRequest (refreshAllStocks, refreshEarnings) call axios.get directly.
DirectCall(path) ==
  /\ Len(sent["direct"]) < MaxDirect
  /\ sent' = [sent EXCEPT !["direct"] = Append(@, now)]
  /\ UNCHANGED <<now, cache, requestTimestamps, batchTimestamps, req, done, calls, pvars, fvars, wvars>>

\* ------------------------------------------------------------------------
\* Clock
\* ------------------------------------------------------------------------
InLastMinute(t, n) == t >= n - WINDOW_MS

\* Date.now() moves on; the history forgets calls older than a minute.
Advance ==
  /\ now' = now + TickMs
  /\ sent' = [g \in DOMAIN sent |->
                SelectSeq(sent[g], LAMBDA t : InLastMinute(t, now + TickMs))]
  /\ UNCHANGED <<cache, requestTimestamps, batchTimestamps, req, done, calls, pvars, fvars, wvars>>

Tick ==
  /\ now + TickMs <= MaxTime
  /\ Advance

\* ------------------------------------------------------------------------
\* Specifications
\* ------------------------------------------------------------------------
NextInteractive ==
  \/ \E c \in IClients, e \in Endpoints, p \in Params : FinnhubRequest(c, e, p)
  \/ \E c \in IClients : SlotTimer(c)
  \/ \E c \in IClients, data \in Payloads : ResponseOk(c, data)
  \/ \E c \in IClients : Response429(c)
  \/ \E c \in IClients : ResponseError(c)
  \/ \E c \in IClients : Retry(c)
  \/ Tick

\* The interactive gateway of server.js under two concurrent route handlers.
Spec == Init /\ [][NextInteractive]_vars

ProviderBudget ==
  calls["interactive"] + calls["batch"] + Len(sent["direct"]) < MaxProviderCalls

\* Quote lookups through the interactive gateway, a batch scan through the
\* batch gateway and the direct routes, against the one provider.
NextProvider ==
  \/ \E c \in {"i1"}, p \in Params : ProviderBudget /\ FinnhubRequest(c, "/quote", p)
  \/ \E c \in {"i1"} : SlotTimer(c)
  \/ \E c \in {"i1"}, data \in Payloads : ResponseOk(c, data)
  \/ \E c \in {"i1"} : Response429(c)
  \/ \E c \in {"i1"} : ResponseError(c)
  \/ \E c \in {"i1"} : Retry(c)
  \/ \E c \in {"b1"} : ProviderBudget /\ BatchCall(c)
  \/ \E c \in {"b1"} : BatchSlotTimer(c)
  \/ \E c \in {"b1"}, data \in Payloads : BatchResponseOk(c, data)
  \/ \E c \in {"b1"} : BatchResponse429(c)
  \/ \E c \in {"b1"} : BatchResponseError(c)
  \/ \E c \in {"b1"} : BatchRetry(c)
  \/ \E path \in DirectPaths : ProviderBudget /\ DirectCall(path)
  \/ Tick

SpecProvider == Init /\ [][NextProvider]_vars

\* Some setTimeout is pending and not yet due.
TimerPending ==
  \E c \in Clients : req[c].pc \in {"waiting", "cooldown"} /\ req[c].timer > now

\* The clock as far as the pending timers need it.
TimerTick ==
  /\ TimerPending
  /\ now + TickMs <= FairHorizon
  /\ Advance

FairBudget == calls["interactive"] + calls["batch"] < MaxFairCalls

NextFair ==
  \/ \E c \in {"i1"}, p \in Params : FairBudget /\ FinnhubRequest(c, "/quote", p)
  \/ \E c \in {"i1"} : SlotTimer(c)
  \/ \E c \in {"i1"}, data \in {"p1"} : ResponseOk(c, data)
  \/ \E c \in {"i1"} : Response429(c)
  \/ \E c \in {"i1"} : ResponseError(c)
  \/ \E c \in {"i1"} : Retry(c)
  \/ \E c \in {"b1"} : FairBudget /\ BatchCall(c)
  \/ \E c \in {"b1"} : BatchSlotTimer(c)
  \/ \E c \in {"b1"}, data \in {"p1"} : BatchResponseOk(c, data)
  \/ \E c \in {"b1"} : BatchResponse429(c)
  \/ \E c \in {"b1"} : BatchResponseError(c)
  \/ \E c \in {"b1"} : BatchRetry(c)
  \/ TimerTick

\* Node.js runs a due timer callback and its clock moves on; nothing makes
\* the provider answer.
FairSpec ==
  /\ Init
  /\ [][NextFair]_vars
  /\ WF_vars(TimerTick)
  /\ \A c \in {"i1"} : WF_vars(SlotTimer(c)) /\ WF_vars(Retry(c))
  /\ \A c \in {"b1"} : WF_vars(BatchSlotTimer(c)) /\ WF_vars(BatchRetry(c))

\* Two concurrent callers on each gateway: route handlers on the interactive
\* one, the requests of batch scans on the batch one.
NextSlots ==
  \/ \E c \in IClients, p \in Params : FinnhubRequest(c, "/quote", p)
  \/ \E c \in IClients : SlotTimer(c)
  \/ \E c \in IClients, data \in {"p1"} : ResponseOk(c, data)
  \/ \E c \in IClients : ResponseError(c)
  \/ \E c \in BClients : BatchCall(c)
  \/ \E c \in BClients : BatchSlotTimer(c)
  \/ \E c \in BClients, data \in {"p1"} : BatchResponseOk(c, data)
  \/ Tick

SpecSlots == Init /\ [][NextSlots]_vars

\* The triggers of the pipeline against the batch gateway and the database.
NextPipeline ==
  \/ \E c \in BClients : StartupQuickSeed(c)
  \/ \E c \in BClients : CronAiPicksJob(c)
  \/ \E c \in BClients : GetAiPicksTrigger(c)
  \/ \E c \in BClients : refreshAiDailyPicksGuard(c)
  \/ \E c \in BClients : quickSeedPicksGuard(c)
  \/ \E c \in BClients : BatchSlotTimer(c)
  \/ \E c \in BClients, data \in Payloads : BatchResponseOk(c, data)
  \/ \E c \in BClients : BatchResponse429(c)
  \/ \E c \in BClients : BatchResponseError(c)
  \/ \E c \in BClients : BatchRetry(c)
  \/ \E c \in BClients : UpsertDone(c)
  \/ \E c \in BClients : CleanupDone(c)
  \/ Tick

SpecPipeline == Init /\ [][NextPipeline]_vars

\* ------------------------------------------------------------------------
\* bulkUpsertAiPicks on its own: any list of picks against any table
\* ------------------------------------------------------------------------
\* The longest list: one full chunk and the start of the next.
MaxPicks == batchSize + 1

\* Symbols enough to fill a chunk and start the next.
UpsertSymbols == 1..MaxPicks

\* The contents two picks of one symbol can differ by.
Versions == {<<"seed", "p2">>, <<"full", "p1">>}

\* A pick as the pipeline builds it, dated today.
PickItems ==
  {[symbol |-> sym, pick_date |-> Today,
    cols |-> [col \in DataColumns |-> FieldOf(v[1], v[2], col)]] :
     sym \in UpsertSymbols, v \in Versions}

PickLists == UNION {[1..n -> PickItems] : n \in 0..MaxPicks}

\* A row an earlier run left in the table.
OldRow(sym, date) ==
  [symbol |-> sym, pick_date |-> date, created_at |-> now, updated_at |-> now,
   cols |-> [col \in DataColumns |-> FieldOf("seed", "p1", col)]]

\* Tables the unique index allows: today's rows and one of the day before.
Stores ==
  {{OldRow(sym, Today) : sym \in have} \cup other :
     have \in {{}, {1}, UpsertSymbols}, other \in {{}, {OldRow(1, Today - 1)}}}

InitUpsert ==
  /\ InitServer
  /\ ai_daily_picks \in Stores
  /\ input \in {[fn |-> "bulkUpsertAiPicks", picks |-> picks] : picks \in PickLists}
  /\ output = NoOutput

\* await db.bulkUpsertAiPicks(picks)
CallBulkUpsert ==
  /\ input.fn = "bulkUpsertAiPicks"
  /\ output.fn = "none"
  /\ \E fails \in SUBSET ChunkStarts(Len(unique(input.picks))) :
       LET result == bulkUpsertAiPicks(input.picks, fails) IN
       /\ ai_daily_picks' = result.store
       /\ output' = [fn |-> "bulkUpsertAiPicks", before |-> ai_daily_picks,
                     fails |-> fails, inserted |-> result.inserted,
                     once |-> result.store, calls |-> 1]
  /\ UNCHANGED <<gvars, runs, started, ended, input, wvars>>

\* The clock moves on between the two calls.
UpsertLater ==
  /\ output.fn = "bulkUpsertAiPicks"
  /\ output.calls = 1
  /\ now = 0
  /\ Tick

\* The same list is saved a second time, every chunk succeeding.
CallBulkUpsertAgain ==
  /\ output.fn = "bulkUpsertAiPicks"
  /\ output.calls = 1
  /\ ai_daily_picks' = bulkUpsertAiPicks(input.picks, {}).store
  /\ output' = [output EXCEPT !.calls = 2]
  /\ UNCHANGED <<gvars, runs, started, ended, input, wvars>>

NextUpsert ==
  \/ CallBulkUpsert
  \/ UpsertLater
  \/ CallBulkUpsertAgain

SpecUpsert == InitUpsert /\ [][NextUpsert]_vars

\* ------------------------------------------------------------------------
\* The gates on their own: any universe of enriched candidates
\* ------------------------------------------------------------------------
Candidates ==
  {Enriched(v, m, e, r, w, t) :
     v \in {1, 2}, m \in {300, 301},
     e \in {Null, Num(0), Num(25)}, r \in {Null, Num(20)},
     w \in {Null, Num(-5), Num(10)}, t \in {-31, -30}}

\* Universes of at most two candidates.
Universes == {{}} \cup {{a, b} : a \in Candidates, b \in Candidates}

InitGates ==
  /\ InitServer
  /\ ai_daily_picks = {}
  /\ input \in {[fn |-> "gates", enrichedPicks |-> u] : u \in Universes}
  /\ output = NoOutput

\* let filtered = enrichedPicks
StartFilters ==
  /\ input.fn = "gates"
  /\ output.fn = "none"
  /\ output' = [fn |-> "gates", after |-> <<input.enrichedPicks>>, again |-> FALSE]
  /\ UNCHANGED <<gvars, pvars, input, wvars>>

\* filtered = filtered.filter(gate), for the next gate in order
ApplyGate(name) ==
  /\ output.fn = "gates"
  /\ ~output.again
  /\ Len(output.after) <= Len(GateNames)
  /\ name = GateNames[Len(output.after)]
  /\ output' = [output EXCEPT !.after = Append(@, Filter(name, Last(@)))]
  /\ UNCHANGED <<gvars, pvars, input, wvars>>

\* The gate applied last is applied once more to what it let through.
ApplyGateAgain ==
  /\ output.fn = "gates"
  /\ ~output.again
  /\ Len(output.after) > 1
  /\ output' = [output EXCEPT
                  !.after = Append(@, Filter(GateNames[Len(@) - 1], Last(@))),
                  !.again = TRUE]
  /\ UNCHANGED <<gvars, pvars, input, wvars>>

NextGates ==
  \/ StartFilters
  \/ ApplyGate("liquidity")
  \/ ApplyGate("growth")
  \/ ApplyGate("trend")
  \/ ApplyGate("sentiment")
  \/ ApplyGateAgain

SpecGates == InitGates /\ [][NextGates]_vars

\* ------------------------------------------------------------------------
\* Scoring on its own: any candidate that passed the gates or not
\* ------------------------------------------------------------------------
ScoreInputs ==
  {[fn |-> "calculateAiScore", buy_ratio |-> b, change_percent |-> c,
    sentiment_score |-> t, eps_growth |-> e, revenue_growth |-> r,
    week_13_return |-> w, price |-> p] :
     b \in {0, 50, 80, 100},
     c \in {Null, Num(-10), Num(0), Num(2), Num(3), Num(10)},
     t \in {-100, 0, 50, 100},
     e \in {Null, Num(-200), Num(25), Num(300)},
     r \in {Null, Num(-200), Num(20), Num(300)},
     w \in {Null, Num(-100), Num(10), Num(100)},
     p \in {10, 49, 50, 299, 300, 301}}

InitScore ==
  /\ InitServer
  /\ ai_daily_picks = {}
  /\ input \in ScoreInputs
  /\ output = NoOutput

\* The score of the candidate as the code computes it.
ScoreOf(pick) ==
  calculateAiScore(pick.buy_ratio, pick.change_percent, pick.sentiment_score,
                   pick.eps_growth, pick.revenue_growth, pick.week_13_return)

\* pick.ai_score = calculateAiScore(...)
CallCalculateAiScore ==
  /\ input.fn = "calculateAiScore"
  /\ output.fn = "none"
  /\ output' = [fn |-> "calculateAiScore", ai_score |-> ScoreOf(input),
                again |-> NULL, category |-> "none"]
  /\ UNCHANGED <<gvars, pvars, input, wvars>>

\* The same arguments are scored a second time (the preliminary and the final
\* score of a pick whose sentiment stayed as it was).
CallCalculateAiScoreAgain ==
  /\ output.fn = "calculateAiScore"
  /\ output.again = NULL
  /\ output' = [output EXCEPT !.again = <<ScoreOf(input)>>]
  /\ UNCHANGED <<gvars, pvars, input, wvars>>

\* pick.category = assignCategory(pick)
CallAssignCategory ==
  /\ output.fn = "calculateAiScore"
  /\ output.category = "none"
  /\ output' = [output EXCEPT !.category =
                  assignCategory([price |-> input.price, ai_score |-> output.ai_score,
                                  change_percent |-> input.change_percent,
                                  buy_ratio |-> input.buy_ratio])]
  /\ UNCHANGED <<gvars, pvars, input, wvars>>

NextScore ==
  \/ CallCalculateAiScore
  \/ CallCalculateAiScoreAgain
  \/ CallAssignCategory

SpecScore == InitScore /\ [][NextScore]_vars

\* ------------------------------------------------------------------------
\* refreshAiDailyPicks phase by phase.  batchFinnhubRequest is taken by what
\* it hands back: response.data, or null after an error.
\* ------------------------------------------------------------------------
\* What a call resolves with: ok is false for null.
Fail(data) == [ok |-> FALSE, data |-> data]
Ok(data) == [ok |-> TRUE, data |-> data]

US_EXCHANGE_MICS == {"XNYS", "XNAS", "XASE", "ARCX", "BATS"}

\* The listing of the exchange: common stocks and one fund.
Listing ==
  [i \in 1..(MaxSymbols + 1) |->
     [symbol |-> i, type |-> IF i <= MaxSymbols THEN "Common Stock" ELSE "ETP",
      mic |-> "XNYS", dotted |-> FALSE]]

SymbolResponses == {Fail(<<>>), Ok(<<>>), Ok(Listing)}

Rec(strongBuy, buy, hold) ==
  [strongBuy |-> strongBuy, buy |-> buy, hold |-> hold, sell |-> 0, strongSell |-> 0]

RecsResponses == {Fail(<<>>), Ok(<<>>), Ok(<<Rec(4, 4, 2)>>), Ok(<<Rec(1, 1, 2)>>)}

NoQuote == [c |-> 0, dp |-> 0]

QuoteResponses == {Fail(NoQuote), Ok(NoQuote), Ok([c |-> 40, dp |-> 3])}

ProfileResponses == {Fail([name |-> ""]), Ok([name |-> "Acme"])}

\* metrics?.metric || {}: every figure missing.
NoMetric == [volume |-> 0, cap |-> 0, eps |-> Null, rev |-> Null, w13 |-> Null]

MetricsResponses ==
  {Fail(NoMetric),
   Ok([volume |-> 2, cap |-> 301, eps |-> Num(25), rev |-> Num(20), w13 |-> Num(10)])}

\* An article by the numbers of positive and negative words found in it.
Article(pos, neg) == [pos |-> pos, neg |-> neg]

\* n articles, the first k of them negative, the others without a word.
Negative(k, n) == [i \in 1..n |-> IF i <= k THEN Article(0, 1) ELSE Article(0, 0)]

\* No news; one bearish article; 3 of 10 bearish (-0.3); 4 of 13 (below -0.3).
NewsResponses ==
  {Fail(<<>>), Ok(<<>>), Ok(Negative(1, 1)), Ok(Negative(3, 10)), Ok(Negative(4, 13))}

\* allSymbols.filter(...).map(s => s.symbol)
commonStocks(symbols) ==
  LET kept == SelectSeq(symbols, LAMBDA s : /\ s.type = "Common Stock"
                                             /\ ~s.dotted
                                             /\ s.mic \in US_EXCHANGE_MICS)
  IN  [i \in DOMAIN kept |-> kept[i].symbol]

\* Math.round(a / b * 100) for a >= 0, b > 0
RoundPercent(a, b) == (200 * a + b) \div (2 * b)

getConsensus(buyRatio) ==
  IF buyRatio > 70 THEN "Strong Buy"
  ELSE IF buyRatio > 50 THEN "Buy"
  ELSE IF buyRatio <= 15 THEN "Strong Sell"
  ELSE IF buyRatio <= 30 THEN "Sell"
  ELSE "Hold"

\* Phase 2 for one symbol: what is pushed to stocksWithRecs, if anything.
StockWithRecs(symbol, recs) ==
  IF recs.ok /\ Len(recs.data) > 0
    THEN LET latest == recs.data[1]
             total == latest.strongBuy + latest.buy + latest.hold
                        + latest.sell + latest.strongSell
         IN  IF total > 0
               THEN <<[symbol |-> symbol,
                       strong_buy |-> latest.strongBuy, buy |-> latest.buy,
                       hold |-> latest.hold, sell |-> latest.sell,
                       strong_sell |-> latest.strongSell,
                       buy_ratio |-> RoundPercent(latest.strongBuy + latest.buy, total),
                       total_analysts |-> total,
                       consensus |-> getConsensus(
                                       RoundPercent(latest.strongBuy + latest.buy, total))]>>
               ELSE <<>>
    ELSE <<>>

\* Phase 3 for one stock: what is pushed to enrichedPicks, if anything.
EnrichedPick(stock, quote, profile, metrics) ==
  IF quote.ok /\ quote.data.c > 0
    THEN LET m == IF metrics.ok THEN metrics.data ELSE NoMetric IN
         <<[name |-> IF profile.ok /\ profile.data.name # ""
                       THEN profile.data.name ELSE "(symbol)",
            price |-> quote.data.c,
            change_percent |-> Num(quote.data.dp),
            avg_volume |-> m.volume,
            market_cap |-> m.cap,
            eps_growth |-> m.eps,
            revenue_growth |-> m.rev,
            week_13_return |-> m.w13,
            above_50_ma |-> AboveMa(m.w13),
            sentiment_score |-> 0,
            sentiment_label |-> "Neutral",
            news_positive_count |-> 0,
            news_negative_count |-> 0,
            news_total_count |-> 0,
            ai_score |-> 0,
            category |-> NULL] @@ stock>>
    ELSE <<>>

\* filtered.filter(gate)
FilterSeq(name, filtered) == SelectSeq(filtered, LAMBDA s : Gate(name, s))

\* pick.ai_score = calculateAiScore(..., sentiment, ...)
WithScore(pick, sentiment) ==
  [pick EXCEPT !.ai_score =
     calculateAiScore(pick.buy_ratio, pick.change_percent, sentiment,
                      pick.eps_growth, pick.revenue_growth, pick.week_13_return)]

\* Where a pick goes in a list sorted by descending score, behind its equals.
RECURSIVE InsertByScore(_, _)
InsertByScore(sorted, pick) ==
  IF sorted = <<>> THEN <<pick>>
  ELSE IF Head(sorted).ai_score >= pick.ai_score
    THEN <<Head(sorted)>> \o InsertByScore(Tail(sorted), pick)
    ELSE <<pick>> \o sorted

\* filtered.sort((a, b) => b.ai_score - a.ai_score), a stable sort
RECURSIVE SortByScoreFrom(_, _)
SortByScoreFrom(sorted, rest) ==
  IF rest = <<>> THEN sorted
  ELSE SortByScoreFrom(InsertByScore(sorted, Head(rest)), Tail(rest))

SortByScore(picks) == SortByScoreFrom(<<>>, picks)

\* Phase 4: the three gates, the preliminary score and the sort.
Phase4(enrichedPicks) ==
  LET filtered == FilterSeq("trend", FilterSeq("growth", FilterSeq("liquidity", enrichedPicks)))
  IN  SortByScore([i \in DOMAIN filtered |-> WithScore(filtered[i], 0)])

\* Mutant: the news targets are the last of the list.
newsTargetsLast(filtered) ==
  {i \in DOMAIN filtered : i > Len(filtered) - NEWS_TARGETS}

\* newsTargets = filtered.slice(0, 200), as positions in filtered
newsTargets(filtered) == {i \in DOMAIN filtered : i <= NEWS_TARGETS}

NEWS_SLICE == 20

\* Math.floor of 100 * (totalPositive - totalNegative) / total
Hundredths(diff, total) == (100 * diff) \div total

\* analyzeBatchSentiment(newsArticles), the score in hundredths
analyzeBatchSentiment(newsArticles) ==
  IF Len(newsArticles) = 0
    THEN [score |-> 0, positiveCount |-> 0, negativeCount |-> 0, totalCount |-> 0]
    ELSE LET totalPositive == Cardinality({i \in DOMAIN newsArticles :
                                             newsArticles[i].pos > newsArticles[i].neg})
             totalNegative == Cardinality({i \in DOMAIN newsArticles :
                                             newsArticles[i].neg > newsArticles[i].pos})
             total == Len(newsArticles)
         IN  [score |-> Clamp(-100, 100, Hundredths(totalPositive - totalNegative, total)),
              positiveCount |-> totalPositive,
              negativeCount |-> totalNegative,
              totalCount |-> total]

\* getSentimentLabel(score) for the score diff / total: > 0.15, < -0.15
getSentimentLabel(diff, total) ==
  IF 100 * diff > 15 * total THEN "Bullish"
  ELSE IF 100 * diff < -15 * total THEN "Bearish"
  ELSE "Neutral"

\* Phase 5 for one pick: the fields the news sets.
WithNews(pick, news) ==
  IF news.ok /\ Len(news.data) > 0
    THEN LET sentiment == analyzeBatchSentiment(
                            SubSeq(news.data, 1, Min(NEWS_SLICE, Len(news.data))))
         IN  [pick EXCEPT !.sentiment_score = sentiment.score,
                          !.sentiment_label =
                            getSentimentLabel(sentiment.positiveCount - sentiment.negativeCount,
                                              sentiment.totalCount),
                          !.news_positive_count = sentiment.positiveCount,
                          !.news_negative_count = sentiment.negativeCount,
                          !.news_total_count = sentiment.totalCount]
    ELSE pick

\* Mutant: the sentiment filter is left out.
FinalPicksUnfiltered(filtered) ==
  SortByScore([i \in DOMAIN filtered |->
                 LET pick == WithScore(filtered[i], filtered[i].sentiment_score)
                 IN  [pick EXCEPT !.category = assignCategory(pick)]])

\* Mutant: only the candidates whose news was asked for go on.
FinalPicksTargetsOnly(filtered) ==
  FinalPicksUnfiltered(FilterSeq("sentiment",
                                 SubSeq(filtered, 1, Min(NEWS_TARGETS, Len(filtered)))))

\* The sentiment filter, the final score, the category and the sort.
FinalPicks(filtered) == FinalPicksUnfiltered(FilterSeq("sentiment", filtered))

\* The columns of a pick; a column the model does not follow holds "-".
ColsOf(pick) ==
  [col \in DataColumns |-> IF col \in DOMAIN pick THEN pick[col] ELSE "-"]

\* pick.pick_date = today, for every pick of the list
ItemsOf(picks, today) ==
  [i \in DOMAIN picks |->
     [symbol |-> picks[i].symbol, pick_date |-> today, cols |-> ColsOf(picks[i])]]

\* The locals of refreshAiDailyPicks beside those of IdleRun: stocksWithRecs,
\* enrichedPicks, filtered; fetched: the symbols whose news was asked for;
\* failed: the symbols one of whose calls came back null; picks: the list
\* handed to bulkUpsertAiPicks; inserted: what bulkUpsertAiPicks returned.
RunLocals ==
  [stocksWithRecs |-> <<>>, enrichedPicks |-> <<>>, filtered |-> <<>>,
   fetched |-> {}, failed |-> {}, picks |-> <<>>, inserted |-> 0]

\* The provider calls a run has under way at the await it stands at.
CallsAt(run) ==
  CASE run.pc \in {"universe", "recs", "news"} -> 1
    [] run.pc = "enrich" -> 3
    [] OTHER -> 0

\* After phase 5: the sentiment filter, the final scores, and the save.
ToSave(run) ==
  [run EXCEPT !.pc = "saving", !.todo = <<>>, !.picks = FinalPicks(run.filtered)]

\* After phase 3: phase 4, then the news of the first targets.
ToNews(run) ==
  LET filtered == Phase4(run.enrichedPicks)
      next == [run EXCEPT !.filtered = filtered,
                          !.todo = SelectSeq(SeqOf(Len(filtered)),
                                             LAMBDA i : i \in newsTargets(filtered))]
  IN  IF next.todo = <<>> THEN ToSave(next) ELSE [next EXCEPT !.pc = "news"]

\* After phase 2: phase 3 for the stocks with analyst data.
ToEnrich(run) ==
  IF run.stocksWithRecs = <<>>
    THEN ToNews(run)
    ELSE [run EXCEPT !.pc = "enrich", !.todo = run.stocksWithRecs]

\* After phase 1: phase 2 for the common stocks.
ToRecs(run, symbols) ==
  IF symbols = <<>> THEN ToEnrich(run) ELSE [run EXCEPT !.pc = "recs", !.todo = symbols]

\* The run of c goes on to its next await.
RunStep(c, next) ==
  /\ runs' = [runs EXCEPT ![c] = next]
  /\ calls' = [calls EXCEPT !["batch"] = @ + CallsAt(next)]
  /\ UNCHANGED <<now, cache, requestTimestamps, batchTimestamps, req, done, sent,
                 ai_daily_picks, started, ended, fvars, wvars>>

\* The run of c returns.
RunReturn(c, run) ==
  /\ runs' = [runs EXCEPT ![c] = IdleRun]
  /\ ended' = Ended(c, run)
  /\ output' = [fn |-> "refreshAiDailyPicks", run |-> run, how |-> Ended(c, run).how]
  /\ UNCHANGED <<gvars, started, input, wvars>>

\* refreshAiDailyPicks after the count: return, or the symbol listing.
RunGuard(c) ==
  /\ runs[c].pc = "guard"
  /\ runs[c].kind = "full"
  /\ IF GuardSkips(getAiPicksCount(runs[c].today))
       THEN RunReturn(c, runs[c] @@ RunLocals) /\ UNCHANGED ai_daily_picks
       ELSE RunStep(c, [runs[c] EXCEPT !.pc = "universe"] @@ RunLocals)

\* Phase 1: the symbol listing is back.
RunSymbols(c, allSyms) ==
  /\ runs[c].pc = "universe"
  /\ IF ~allSyms.ok \/ Len(allSyms.data) = 0
       THEN RunReturn(c, runs[c]) /\ UNCHANGED ai_daily_picks
       ELSE RunStep(c, ToRecs(runs[c], commonStocks(allSyms.data)))

\* Whether one of the calls for a symbol came back null.
FailedWith(failed, symbol, responses) ==
  IF \E r \in responses : ~r.ok THEN failed \cup {symbol} ELSE failed

\* Phase 2: the recommendations of a symbol are back.
RunRecs(c, recs) ==
  /\ runs[c].pc = "recs"
  /\ LET symbol == Head(runs[c].todo)
         next == [runs[c] EXCEPT
                    !.todo = Tail(@),
                    !.stocksWithRecs = @ \o StockWithRecs(symbol, recs),
                    !.failed = FailedWith(@, symbol, {recs})]
     IN  RunStep(c, IF next.todo = <<>> THEN ToEnrich(next) ELSE next)

\* Phase 3: quote, profile and metrics of a stock are back (Promise.all).
RunEnrich(c, quote, profile, metrics) ==
  /\ runs[c].pc = "enrich"
  /\ LET stock == Head(runs[c].todo)
         next == [runs[c] EXCEPT
                    !.todo = Tail(@),
                    !.enrichedPicks = @ \o EnrichedPick(stock, quote, profile, metrics),
                    !.failed = IF ~quote.ok \/ ~profile.ok \/ ~metrics.ok
                                 THEN @ \cup {stock.symbol} ELSE @]
     IN  RunStep(c, IF next.todo = <<>> THEN ToNews(next) ELSE next)

\* Phase 5: the news of a target is back.
RunNews(c, news) ==
  /\ runs[c].pc = "news"
  /\ LET i == Head(runs[c].todo)
         symbol == runs[c].filtered[i].symbol
         next == [runs[c] EXCEPT
                    !.todo = Tail(@),
                    !.filtered[i] = WithNews(@, news),
                    !.fetched = @ \cup {symbol},
                    !.failed = FailedWith(@, symbol, {news})]
     IN  RunStep(c, IF next.todo = <<>> THEN ToSave(next) ELSE next)

\* db.bulkUpsertAiPicks(filtered) resolves.
RunSave(c) ==
  /\ runs[c].pc = "saving"
  /\ \E fails \in SUBSET ChunkStarts(Len(runs[c].picks)) :
       LET saved == bulkUpsertAiPicks(ItemsOf(runs[c].picks, runs[c].today), fails)
       IN  /\ ai_daily_picks' = saved.store
           /\ runs' = [runs EXCEPT ![c].pc = "cleanup", ![c].inserted = saved.inserted]
  /\ UNCHANGED <<gvars, started, ended, fvars, wvars>>

\* db.cleanupOldAiPicks(7) resolves: the run is over.
RunCleanup(c) ==
  /\ runs[c].pc = "cleanup"
  /\ ai_daily_picks' = cleanupOldAiPicks(RETENTION_DAYS)
  /\ RunReturn(c, runs[c])

\* The cron fires at some time of the day.
RunLater ==
  /\ \A t \in Triggers : started[t] = 0
  /\ Tick

\* A pick of an earlier day.
EarlierPick ==
  EnrichedPick(StockWithRecs(1, Ok(<<Rec(4, 4, 2)>>))[1], Ok([c |-> 40, dp |-> 3]),
               Ok([name |-> "Acme"]),
               Ok([volume |-> 2, cap |-> 301, eps |-> Num(25), rev |-> Num(20),
                   w13 |-> Num(10)]))[1]

\* The row a run of that day left.
EarlierRow(date) ==
  [symbol |-> EarlierPick.symbol, pick_date |-> date,
   created_at |-> date * DAY_MS, updated_at |-> date * DAY_MS,
   cols |-> ColsOf(EarlierPick)]

\* Tables with rows inside, at the edge of and beyond the retention window.
RunStores ==
  SUBSET {EarlierRow(Today - d) : d \in {1, RETENTION_DAYS, RETENTION_DAYS + 1}}

InitRun ==
  /\ InitServer
  /\ ai_daily_picks \in RunStores
  /\ input = NoInput
  /\ output = NoOutput

NextRun ==
  \/ RunLater
  \/ CronAiPicksJob("b1")
  \/ RunGuard("b1")
  \/ \E allSyms \in SymbolResponses : RunSymbols("b1", allSyms)
  \/ \E recs \in RecsResponses : RunRecs("b1", recs)
  \/ \E quote \in QuoteResponses, profile \in ProfileResponses,
        metrics \in MetricsResponses : RunEnrich("b1", quote, profile, metrics)
  \/ \E news \in NewsResponses : RunNews("b1", news)
  \/ RunSave("b1")
  \/ RunCleanup("b1")

SpecRun == InitRun /\ [][NextRun]_vars

\* ------------------------------------------------------------------------
\* websocket-manager.js: FinnhubWebSocketManager; server.js: io.on('connection')
\* ------------------------------------------------------------------------
\* The manager, its sockets and its timers, as the methods below change them.
WsState == [m |-> wsManager, s |-> sockets, t |-> timers]

WsBecomes(st) ==
  /\ wsManager' = st.m
  /\ sockets' = st.s
  /\ timers' = st.t

\* symbol.toUpperCase()
toUpperCase(symbol) == IF symbol = "aapl" THEN "AAPL" ELSE symbol

\* this.ws && this.ws.readyState === WebSocket.OPEN
CanSend(st) == st.m.ws # 0 /\ st.s[st.m.ws].readyState = "OPEN"

sendSubscribe(st, symbol) ==
  IF CanSend(st) THEN [st EXCEPT !.s[st.m.ws].upstream = @ \cup {symbol}] ELSE st

sendUnsubscribe(st, symbol) ==
  IF CanSend(st) THEN [st EXCEPT !.s[st.m.ws].upstream = @ \ {symbol}] ELSE st

\* for (const symbol of this.subscribedSymbols) this._sendSubscribe(symbol)
sendSubscribeAll(st) ==
  IF CanSend(st)
    THEN [st EXCEPT !.s[st.m.ws].upstream = @ \cup st.m.subscribedSymbols]
    ELSE st

\* for (const symbol of this.subscribedSymbols) this._sendUnsubscribe(symbol)
sendUnsubscribeAll(st) ==
  IF CanSend(st)
    THEN [st EXCEPT !.s[st.m.ws].upstream = @ \ st.m.subscribedSymbols]
    ELSE st

scheduleReconnect(st) ==
  IF st.m.reconnectTimer
    THEN st
    ELSE [st EXCEPT !.m.reconnectTimer = TRUE, !.t = @ + 1]

subscribe(st, symbol) ==
  LET upper == toUpperCase(symbol) IN
  IF upper \in st.m.subscribedSymbols
    THEN st
    ELSE sendSubscribe([st EXCEPT !.m.subscribedSymbols = @ \cup {upper}], upper)

unsubscribe(st, symbol) ==
  LET upper == toUpperCase(symbol) IN
  IF upper \notin st.m.subscribedSymbols
    THEN st
    ELSE LET sentOut == sendUnsubscribe([st EXCEPT !.m.subscribedSymbols = @ \ {upper}],
                                        upper)
         IN  [sentOut EXCEPT !.m.latestPrices = @ \ {upper}]

\* ws.close(): the 'close' event comes in a later turn.
close(socket) ==
  IF socket.readyState \in {"CONNECTING", "OPEN"}
    THEN [socket EXCEPT !.readyState = "CLOSING"]
    ELSE socket

\* connect(), the new WebSocket being the socket id
connect(st, id) ==
  LET closed == IF st.m.ws # 0 THEN [st EXCEPT !.s[st.m.ws] = close(@)] ELSE st
  IN  [closed EXCEPT !.s[id] = NewSocket, !.m.ws = id]

disconnect(st) ==
  LET cleared == IF st.m.reconnectTimer
                   THEN [st EXCEPT !.m.reconnectTimer = FALSE, !.t = @ - 1]
                   ELSE st
      closed == IF cleared.m.ws # 0
                  THEN LET sentOut == sendUnsubscribeAll(cleared)
                       IN  [sentOut EXCEPT !.s[cleared.m.ws] = close(@), !.m.ws = 0]
                  ELSE cleared
  IN  [closed EXCEPT !.m.isConnected = FALSE]

\* this.ws.on('open', ...)
onOpen(st) == sendSubscribeAll([st EXCEPT !.m.isConnected = TRUE])

\* this.ws.on('close', ...)
onClose(st) == scheduleReconnect([st EXCEPT !.m.isConnected = FALSE])

\* io.on('connection'): a frontend client connects.
ClientConnect(f) ==
  /\ ~frontend[f].connected
  /\ frontend' = [frontend EXCEPT ![f].connected = TRUE]
  /\ UNCHANGED <<gvars, pvars, fvars, wsManager, sockets, timers, wsHist>>

\* socket.on('subscribe'): the client asks for a symbol.
ClientSubscribe(f, symbol) ==
  /\ frontend[f].connected
  /\ frontend' = [frontend EXCEPT ![f].wants = @ \cup {toUpperCase(symbol)}]
  /\ WsBecomes(subscribe(WsState, symbol))
  /\ UNCHANGED <<gvars, pvars, fvars, wsHist>>

\* socket.on('unsubscribe'): the client gives a symbol up.
ClientUnsubscribe(f, symbol) ==
  /\ frontend[f].connected
  /\ frontend' = [frontend EXCEPT ![f].wants = @ \ {toUpperCase(symbol)}]
  /\ WsBecomes(unsubscribe(WsState, symbol))
  /\ UNCHANGED <<gvars, pvars, fvars, wsHist>>

\* socket.on('disconnect'): the client is gone; the handler only logs.
ClientDisconnect(f) ==
  /\ frontend[f].connected
  /\ frontend' = [frontend EXCEPT ![f] = [connected |-> FALSE, wants |-> {}]]
  /\ UNCHANGED <<gvars, pvars, fvars, wsManager, sockets, timers, wsHist>>

\* The handshake of a socket completes: 'open'.
SocketOpen(id) ==
  /\ sockets[id].readyState = "CONNECTING"
  /\ WsBecomes(onOpen([WsState EXCEPT !.s[id].readyState = "OPEN"]))
  /\ UNCHANGED <<gvars, pvars, fvars, frontend, wsHist>>

\* The 'close' event of a socket closed by ws.close().
SocketClosed(id) ==
  /\ sockets[id].readyState = "CLOSING"
  /\ WsBecomes(onClose([WsState EXCEPT !.s[id] = [readyState |-> "CLOSED",
                                                  upstream |-> {}]]))
  /\ UNCHANGED <<gvars, pvars, fvars, frontend, wsHist>>

\* The provider or the network ends a connection: 'close'.
SocketDropped(id) ==
  /\ sockets[id].readyState \in {"CONNECTING", "OPEN"}
  /\ WsBecomes(onClose([WsState EXCEPT !.s[id] = [readyState |-> "CLOSED",
                                                  upstream |-> {}]]))
  /\ UNCHANGED <<gvars, pvars, fvars, frontend, wsHist>>

\* this.ws.on('message'): a trade of a streamed symbol arrives.
Trade(id, symbol) ==
  /\ sockets[id].readyState = "OPEN"
  /\ symbol \in sockets[id].upstream
  /\ wsManager' = [wsManager EXCEPT !.latestPrices = @ \cup {symbol}]
  /\ UNCHANGED <<gvars, pvars, fvars, sockets, timers, frontend, wsHist>>

\* The callback of _scheduleReconnect runs: connect().
ReconnectTimer ==
  /\ timers > 0
  /\ wsHist.opened < MaxSockets
  /\ WsBecomes(connect([WsState EXCEPT !.m.reconnectTimer = FALSE, !.t = @ - 1],
                       wsHist.opened + 1))
  /\ wsHist' = [wsHist EXCEPT !.opened = @ + 1]
  /\ UNCHANGED <<gvars, pvars, fvars, frontend>>

\* disconnect() is called on the manager.
Disconnect ==
  /\ ~wsHist.stopped
  /\ WsBecomes(disconnect(WsState))
  /\ wsHist' = [wsHist EXCEPT !.stopped = TRUE, !.openedAtStop = wsHist.opened]
  /\ UNCHANGED <<gvars, pvars, fvars, frontend>>

NextSocket ==
  \/ \E f \in FClients : ClientConnect(f)
  \/ \E f \in FClients, symbol \in Symbols : ClientSubscribe(f, symbol)
  \/ \E f \in FClients, symbol \in Symbols : ClientUnsubscribe(f, symbol)
  \/ \E f \in FClients : ClientDisconnect(f)
  \/ \E id \in SocketIds : SocketOpen(id)
  \/ \E id \in SocketIds : SocketClosed(id)
  \/ \E id \in SocketIds : SocketDropped(id)
  \/ \E id \in SocketIds, symbol \in Symbols : Trade(id, symbol)
  \/ ReconnectTimer
  \/ Disconnect

\* The manager between its frontend clients and the provider's stream.
SpecSocket == Init /\ [][NextSocket]_vars

\* ------------------------------------------------------------------------
\* Claims
\* ------------------------------------------------------------------------
\* The network calls of gateway g, and the reservations in its window ts,
\* that fall into the minute ending now.
AttemptsOf(g) == SelectSeq(sent[g], LAMBDA t : InLastMinute(t, now))
ReservationsOf(ts) == SelectSeq(ts, LAMBDA t : InLastMinute(t, now))

\* C1: each gateway issues at most its ceiling of network attempts in any
\* 60 seconds, retries after a 429 included, and every attempt has exactly one
\* reservation in the window of its gateway.
C1_RateCeiling ==
  /\ Len(AttemptsOf("interactive")) <= MAX_REQUESTS_PER_MINUTE
  /\ Len(AttemptsOf("batch")) <= BATCH_MAX_PER_MINUTE
  /\ AttemptsOf("interactive") = ReservationsOf(requestTimestamps)
  /\ AttemptsOf("batch") = ReservationsOf(batchTimestamps)

\* Both windows are at their ceiling, retries among the attempts, and the
\* next call of each gateway is held back.
C1_Witness ==
  /\ Len(AttemptsOf("interactive")) = MAX_REQUESTS_PER_MINUTE
  /\ Len(AttemptsOf("batch")) = BATCH_MAX_PER_MINUTE
  /\ req["i1"].pc = "waiting"
  /\ req["b1"].pc = "waiting"

\* C2: the calls of both gateways together stay within the provider's limit
\* in any trailing 60 seconds.
C2_ProviderLimit ==
  Len(AttemptsOf("interactive")) + Len(AttemptsOf("batch")) <= FINNHUB_LIMIT

\* C3: every request sent to the provider was counted by a reservation in
\* one of the two windows.
C3_EveryCallMetered ==
  Len(AttemptsOf("interactive")) + Len(AttemptsOf("batch")) + Len(AttemptsOf("direct"))
    = Len(ReservationsOf(requestTimestamps)) + Len(ReservationsOf(batchTimestamps))

Keys == {CacheKey(e, p) : e \in Endpoints, p \in Params}

\* The lifetime the specification gives an entry: 60 s for /quote, 1 h otherwise.
LifetimeOf(key) == IF key[1] = "/quote" THEN QUOTE_CACHE_TTL ELSE CACHE_TTL

FreshEntry(key) == key \in DOMAIN cache /\ now - cache[key].time < LifetimeOf(key)

\* The key of the fetch that a route handler starts in this step.
StartedKey ==
  IF req' = req THEN done'.key
  ELSE req'[CHOOSE c \in IClients : req'[c] # req[c]].key

FetchStarts == calls'["interactive"] = calls["interactive"] + 1

\* C4: a fetch of a key whose entry is younger than its TTL returns the stored
\* payload and changes nothing: no network call, no timestamp, the entry as it was.
C4_CacheHitFrame ==
  [][ \A key \in Keys :
        (FetchStarts /\ StartedKey = key /\ FreshEntry(key))
          => /\ done'.res = [src |-> "cache", data |-> cache[key].data]
             /\ done'.nres = 1
             /\ done'.hist = <<>>
             /\ cache' = cache
             /\ requestTimestamps' = requestTimestamps
             /\ sent' = sent
             /\ req' = req ]_vars

\* A profile entry is served from the cache when it is older than a quote may be.
C4_Witness ==
  /\ done.res.src = "cache"
  /\ done.key[1] = "/stock/profile2"
  /\ done.age >= QUOTE_CACHE_TTL

\* C5: an entry as old as its TTL or older is handed back only by a fetch whose
\* own attempt failed with an error other than 429; a fetch that succeeded
\* hands back the response; entries are never removed.
C5_StaleOnlyOnFailure ==
  [][ /\ (done'.age >= LifetimeOf(done'.key)
            => done'.res.src = "stale" /\ Last(done'.hist) = "err")
      /\ (done'.res.src = "cache" => done'.hist = <<>> \/ Last(done'.hist) = "429")
      /\ (done'.hist # <<>> /\ Last(done'.hist) = "ok"
            => done'.res = [src |-> "network", data |-> done'.got] /\ done'.age = -1)
      /\ DOMAIN cache \subseteq DOMAIN cache' ]_vars

\* An expired entry is handed back after a 429 and a failed retry.
C5_Witness ==
  /\ done.res.src = "stale"
  /\ done.age >= LifetimeOf(done.key)
  /\ done.hist = <<"429", "err">>

\* C6: when an attempt fails with an error other than 429 the fetch hands back
\* the entry stored for the key, however old, or else rejects; the cache stays
\* as it was.
C6_ErrorFallback ==
  [][ \A c \in IClients :
        (req[c].pc = "inflight" /\ req'[c].pc = "idle" /\ Last(done'.hist) = "err")
          => /\ cache' = cache
             /\ done'.by = c
             /\ done'.nres = 1
             /\ IF req[c].key \in DOMAIN cache
                  THEN done'.res = [src |-> "stale", data |-> cache[req[c].key].data]
                  ELSE done'.res = [src |-> "error", data |-> NULL] ]_vars

\* A quote entry older than a minute is handed back when the provider fails.
C6_Witness ==
  /\ done.res.src = "stale"
  /\ done.key[1] = "/quote"
  /\ done.age > QUOTE_CACHE_TTL
  /\ done.hist = <<"err">>

\* The cooldown the code owes the provider after a 429.
CooldownOf(c) == IF c \in IClients THEN RETRY_DELAY_MS ELSE BATCH_RETRY_DELAY_MS

\* C7: a fetch whose first attempt got 429 and whose retry succeeded settles
\* once, with the payload of the retry, and no retry is issued before the
\* cooldown has passed since the 429.
C7_RetryAfter429 ==
  [][ /\ (done'.hist = <<"429", "ok">> =>
            /\ done'.res = [src |-> "network", data |-> done'.got]
            /\ done'.nres = 1)
      /\ \A c \in Clients :
           (req[c].hist # <<>> /\ req[c].pc # "inflight" /\ req'[c].pc = "inflight")
             => now' >= req[c].t429 + CooldownOf(c) ]_vars

C7_Witness ==
  /\ done.hist = <<"429", "ok">>
  /\ done.res.src = "network"
  /\ done.by = "b1"

WindowOf(c) == IF c \in IClients THEN requestTimestamps ELSE batchTimestamps
CeilingOf(c) == IF c \in IClients THEN MAX_REQUESTS_PER_MINUTE ELSE BATCH_MAX_PER_MINUTE

Attempts(r) == Len(r.hist) + (IF r.pc = "inflight" THEN 1 ELSE 0)

\* C8: a fetch retries once after a 429, so it makes at most two attempts.
C8_RetriesOnce == \A c \in Clients : Attempts(req[c]) <= 2

\* The run is past its guard and fetches and builds its list of candidates.
Building(c) == runs[c].pc \in {"universe", "building"}

\* C10: at most one pipeline run is in progress at any time: no two runs
\* fetch and build their candidate lists concurrently.
C10_OneRunAtATime ==
  \A c1, c2 \in BClients : (Building(c1) /\ Building(c2)) => c1 = c2

\* A full run has saved picks for the date.
PersistedByFullRun(date) ==
  \E row \in ai_daily_picks :
    row.pick_date = date /\ row.cols["reason_text"] = FieldOf("full", "p1", "reason_text")

\* The run of caller c leaves the await of its guard in this step.
GuardStep(c) == runs[c].pc = "guard" /\ runs[c].kind = "full" /\ runs'[c] # runs[c]

\* The step sends nothing to the provider and writes nothing to the table.
NothingDone ==
  /\ sent' = sent
  /\ batchTimestamps' = batchTimestamps
  /\ calls' = calls
  /\ req' = req
  /\ ai_daily_picks' = ai_daily_picks

\* C11 as claimed: once a full run for a date has completed and saved its
\* picks, every refreshAiDailyPicks called later on that date ends at its
\* guard without a provider call, an upsert or a cleanup.  The run that ended
\* last was a completed full run of the same caller, so the call is a later one.
C11_CompletedRunBlocksLater ==
  [][ \A c \in BClients :
        (/\ GuardStep(c)
         /\ ended = [by |-> c, kind |-> "full", how |-> "completed"]
         /\ PersistedByFullRun(runs[c].today)
         /\ \A d \in BClients \ {c} : runs[d].pc = "idle")
          => runs'[c] = IdleRun /\ NothingDone ]_vars

\* C11, amended: once more picks than the threshold of the guard are saved for
\* a date they stay saved through that date, and every refreshAiDailyPicks
\* whose guard then counts them ends there without a provider call, an upsert
\* or a cleanup.
C11_GuardShortCircuits ==
  [][ /\ (getAiPicksCount(Today) > GuardThreshold /\ now' \div DAY_MS = Today)
            => Cardinality({row \in ai_daily_picks' : row.pick_date = Today}) > GuardThreshold
      /\ \A c \in BClients :
           (GuardStep(c) /\ getAiPicksCount(runs[c].today) > GuardThreshold)
             => /\ runs'[c] = IdleRun
                /\ ended' = [by |-> c, kind |-> "full", how |-> "skipped"]
                /\ NothingDone ]_vars

\* A full run has ended at its guard.
C11_Witness == ended.kind = "full" /\ ended.how = "skipped"

\* ------------------------------------------------------------------------
\* C12: bulkUpsertAiPicks removes the duplicates of a (symbol, pick_date)
\* key from its list before it writes, and the last of the duplicates is
\* the one written (last-write-wins).
\* ------------------------------------------------------------------------
\* The row for the key of a pick holds the fields of that pick.
WrittenAs(store, p) ==
  \E row \in store : KeyOf(row) = KeyOf(p) /\ row.cols = p.cols

LastOfKey(picks, i) == \A j \in (i + 1)..Len(picks) : KeyOf(picks[j]) # KeyOf(picks[i])

AllSucceededOnce ==
  output.fn = "bulkUpsertAiPicks" /\ output.calls = 1 /\ output.fails = {}

C12_LastWriteWins ==
  AllSucceededOnce =>
    \A i \in DOMAIN input.picks :
      LastOfKey(input.picks, i) => WrittenAs(ai_daily_picks, input.picks[i])

\* ------------------------------------------------------------------------
\* C13: bulkUpsertAiPicks is idempotent: with every chunk succeeding, saving
\* the same list a second time leaves the table as the first time left it,
\* apart from updated_at, and adds no row.
\* ------------------------------------------------------------------------
\* The table without the updated_at column.
ApartFromUpdatedAt(store) ==
  {[symbol |-> row.symbol, pick_date |-> row.pick_date,
    created_at |-> row.created_at, cols |-> row.cols] : row \in store}

SavedTwice ==
  output.fn = "bulkUpsertAiPicks" /\ output.calls = 2 /\ output.fails = {}

C13_Idempotent ==
  SavedTwice =>
    /\ ApartFromUpdatedAt(ai_daily_picks) = ApartFromUpdatedAt(output.once)
    /\ Cardinality(ai_daily_picks) = Cardinality(output.once)

\* Two chunks saved twice, the second time at a later instant.
C13_Witness ==
  /\ SavedTwice
  /\ Len(unique(input.picks)) > batchSize
  /\ ai_daily_picks # output.once

\* ------------------------------------------------------------------------
\* C14: after any sequence of quick seeds, full runs, upserts and cleanups
\* the table holds at most one row per (symbol, pick_date); an upsert that
\* meets an existing key replaces all data and derived fields of that row
\* and leaves the rows of other keys unchanged.
\* ------------------------------------------------------------------------
OneRowPerKey(store) ==
  \A r1, r2 \in store : KeyOf(r1) = KeyOf(r2) => r1 = r2

\* The run of c is at the step where its upsert resolves.
UpsertStep(c) == runs[c].pc = "saving" /\ runs'[c] # runs[c]

\* Row new is what the upsert of pick p makes of row old.
ReplacedBy(old, new, p) ==
  /\ KeyOf(p) = KeyOf(old)
  /\ KeyOf(new) = KeyOf(old)
  /\ new.cols = p.cols
  /\ new.updated_at = now
  /\ new.created_at = old.created_at

C14_OneRowPerKeyReplaced ==
  [][ /\ OneRowPerKey(ai_daily_picks')
      /\ \A c \in BClients :
           UpsertStep(c) =>
             \A old \in ai_daily_picks :
               \/ old \in ai_daily_picks'
               \/ \E new \in ai_daily_picks', i \in DOMAIN PicksOf(runs[c]) :
                    ReplacedBy(old, new, PicksOf(runs[c])[i]) ]_vars

\* A row written by one run and later replaced, with other fields, by another.
C14_Witness ==
  \E row \in ai_daily_picks :
    /\ row.created_at < row.updated_at
    /\ row.cols = [col \in DataColumns |-> FieldOf("full", "p1", col)]

\* ------------------------------------------------------------------------
\* C15: when the query of one chunk fails, bulkUpsertAiPicks does not throw;
\* none of the rows of that chunk is written, the other chunks are written,
\* and the count returned is the number of rows of the chunks that succeeded.
\* ------------------------------------------------------------------------
\* The start of the chunk that holds item j.
ChunkStartOf(j) == ((j - 1) \div batchSize) * batchSize + 1

\* The rows of the table under the key of a pick.
RowsAt(store, p) == {row \in store : KeyOf(row) = KeyOf(p)}

Returned == output.fn = "bulkUpsertAiPicks" /\ output.calls = 1

C15_FailedChunkSkipped ==
  Returned =>
    LET items == unique(input.picks) IN
    /\ \A j \in DOMAIN items :
         IF ChunkStartOf(j) \in output.fails
           THEN RowsAt(ai_daily_picks, items[j]) = RowsAt(output.before, items[j])
           ELSE WrittenAs(ai_daily_picks, items[j])
    /\ output.inserted
         = Cardinality({j \in DOMAIN items : ChunkStartOf(j) \notin output.fails})

\* Two chunks, one failed and one written over a row it replaces.
C15_Witness ==
  /\ Returned
  /\ output.fails # {}
  /\ output.fails # ChunkStarts(Len(unique(input.picks)))
  /\ output.inserted > 0
  /\ ai_daily_picks # output.before

\* ------------------------------------------------------------------------
\* C16: every persisted pick, saved by a full run or by the quick seed, has
\* above_50_ma true.
\* ------------------------------------------------------------------------
C16_PersistedAboveMa ==
  \A row \in ai_daily_picks : row.cols["above_50_ma"] = TRUE

\* ------------------------------------------------------------------------
\* C17: for any set of enriched candidates, what survives the liquidity,
\* growth, trend and sentiment gates is a subset of what survives any prefix
\* of them; a gate applied again to its own output removes nothing; and a
\* candidate with null EPS growth and null revenue growth fails the growth
\* gate.
\* ------------------------------------------------------------------------
\* The number of gates applied in order so far.
GatesApplied == IF output.again THEN Len(output.after) - 2 ELSE Len(output.after) - 1

NoGrowthFigure(s) == IsNull(s.eps_growth) /\ IsNull(s.revenue_growth)

C17_GatesMonotoneIdempotent ==
  output.fn = "gates" =>
    /\ \A k \in 1..(GatesApplied + 1) :
         output.after[GatesApplied + 1] \subseteq output.after[k]
    /\ output.again => Last(output.after) = output.after[GatesApplied + 1]
    /\ GatesApplied >= 2 => \A s \in output.after[3] : ~NoGrowthFigure(s)

\* All four gates applied to a universe with a candidate without growth
\* figures and one that passes every gate, the last gate applied again.
C17_Witness ==
  /\ output.fn = "gates"
  /\ output.again
  /\ GatesApplied = Len(GateNames)
  /\ \E s \in input.enrichedPicks : NoGrowthFigure(s) /\ liquidityGate(s)
  /\ Last(output.after) # {}
  /\ Last(output.after) # input.enrichedPicks

\* ------------------------------------------------------------------------
\* C18: calculateAiScore is pure: for buyRatio in 0..100, sentimentScore in
\* [-1, 1] and any growth, trend and change values, null and out of range
\* included, it returns an integer in 0..100, and a second call with the
\* same arguments returns the same value; no state is read or changed.
\* ------------------------------------------------------------------------
Scored == output.fn = "calculateAiScore"

ScenarioCandidate ==
  /\ input.fn = "calculateAiScore"
  /\ input.buy_ratio = 80
  /\ input.change_percent = Num(3)
  /\ input.sentiment_score = 50
  /\ input.eps_growth = Num(25)
  /\ input.revenue_growth = Num(20)
  /\ input.week_13_return = Num(10)

C19_ScenarioAbove75 == (Scored /\ ScenarioCandidate) => output.ai_score > 75

\* C19 as the formula has it: the candidate receives the aiScore 70 (the
\* weighted sum is 70.25).
C19_ScenarioScores70 == (Scored /\ ScenarioCandidate) => output.ai_score = 70

C19_Witness == Scored /\ ScenarioCandidate

\* ------------------------------------------------------------------------
\* C20: a scored candidate with buyRatio 80 and changePercent 3 is assigned
\* the category "Breakout Candidates" for every price below 300.
\* ------------------------------------------------------------------------
Categorized == Scored /\ output.category # "none"

Buy80Change3 == input.buy_ratio = 80 /\ input.change_percent = Num(3)

C20_BreakoutBelow300 ==
  (Categorized /\ Buy80Change3 /\ input.price < 300) =>
    output.category = "Breakout Candidates"

\* C20 under the rule order: such a candidate is "Breakout Candidates" for
\* every price below 50 at which its aiScore is at most 60; below 50 with an
\* aiScore above 60 it is "Low-Cost Opportunities", and from 50 to 300 it is
\* "Mid-Cap Momentum".
C20_BreakoutBelow50LowScore ==
  (Categorized /\ Buy80Change3 /\ input.price <= 300) =>
    output.category =
      IF input.price < 50
        THEN IF output.ai_score > 60 THEN "Low-Cost Opportunities"
                                     ELSE "Breakout Candidates"
        ELSE "Mid-Cap Momentum"

C20_Witness ==
  /\ Categorized
  /\ Buy80Change3
  /\ input.price < 50
  /\ output.category = "Breakout Candidates"

\* ------------------------------------------------------------------------
\* C21: a symbol for which a provider call of the consensus, enrichment or
\* news phase fails is dropped from the candidates and is not persisted by
\* the run, which goes on with the remaining symbols.
\* ------------------------------------------------------------------------
RunCompleted == output.fn = "refreshAiDailyPicks" /\ output.how = "completed"

\* The symbols the run that completed has persisted.
PersistedByRun ==
  {row.symbol : row \in {r \in ai_daily_picks : r.pick_date = output.run.today}}

C21_FailedSymbolDropped ==
  RunCompleted => PersistedByRun \cap output.run.failed = {}

\* ------------------------------------------------------------------------
\* C22: when the fetch of the symbol listing fails or returns an empty list,
\* refreshAiDailyPicks ends normally with nothing persisted by the run: no
\* further provider call, no upsert, no cleanup, no exception.
\* ------------------------------------------------------------------------
\* The listing fetch of the run of c settles in this step with null or with
\* an empty list ("p1" is the non-empty listing).
ListingUnusable(c) ==
  /\ runs[c].pc = "universe"
  /\ done' # done
  /\ done'.by = c
  /\ done'.res.data # "p1"

C22_NoListingEndsRun ==
  [][ \A c \in BClients :
        ListingUnusable(c) =>
          /\ runs'[c] = IdleRun
          /\ req'[c] = IdleReq
          /\ ended' = [by |-> c, kind |-> "full", how |-> "no symbols"]
          /\ calls' = calls
          /\ sent' = sent
          /\ batchTimestamps' = batchTimestamps
          /\ ai_daily_picks' = ai_daily_picks ]_vars

\* A full run that ended at a listing fetch that failed.
C22_Witness ==
  /\ ended.kind = "full"
  /\ ended.how = "no symbols"
  /\ done.by = ended.by
  /\ done.res.data = NULL

\* ------------------------------------------------------------------------
\* C23: cleanupOldAiPicks(7) deletes exactly the picks whose pick_date is
\* more than 7 days before now and leaves every other pick unchanged; after
\* a full run that reached persistence no pick older than the retention
\* window remains.
\* ------------------------------------------------------------------------
\* Milliseconds between the midnight that starts the row's day and now.
AgeOfPick(row) == now - row.pick_date * DAY_MS

OlderThanWindow(row) == AgeOfPick(row) > RETENTION_DAYS * DAY_MS

CleanupStep == runs["b1"].pc = "cleanup" /\ runs'["b1"].pc = "idle"

Proceeds(c) == req[c].pc # "inflight" /\ req'[c].pc = "inflight"

\* Caller c, waiting for a slot, has its timer callback run in this step.
Wakes(c) == req[c].pc = "waiting" /\ req'[c] # req[c]

\* The slots free at this instant in a window ts with the given ceiling.
FreeSlots(ts, ceiling) ==
  ceiling - Cardinality({i \in DOMAIN ts : now - ts[i] <= WINDOW_MS})

SlotStep(cs, ts, tsNext, ceiling) ==
  /\ Cardinality({c \in cs : Proceeds(c)}) <= 1
  /\ \A c \in cs :
       /\ Proceeds(c) =>
            /\ FreeSlots(ts, ceiling) > 0
            /\ FreeSlots(tsNext, ceiling) = FreeSlots(ts, ceiling) - 1
            /\ Last(tsNext) = now
       /\ Wakes(c) /\ FreeSlots(ts, ceiling) > 0 => Proceeds(c)
       /\ Wakes(c) /\ FreeSlots(ts, ceiling) = 0 =>
            req'[c].pc = "waiting" /\ req'[c].timer > now
  /\ (\A c \in cs : ~Proceeds(c)) => FreeSlots(tsNext, ceiling) = FreeSlots(ts, ceiling)

C24_SlotsSerialized ==
  /\ [](Len(requestTimestamps) <= MAX_REQUESTS_PER_MINUTE)
  /\ [](Len(batchTimestamps) <= BATCH_MAX_PER_MINUTE)
  /\ [][SlotStep(IClients, requestTimestamps, requestTimestamps',
                 MAX_REQUESTS_PER_MINUTE)]_vars
  /\ [][SlotStep(BClients, batchTimestamps, batchTimestamps',
                 BATCH_MAX_PER_MINUTE)]_vars

\* On each gateway two waiters woke at the same instant with one slot free:
\* one took it, the other waits on.
C24_Witness ==
  /\ now > WINDOW_MS
  /\ \E c, d \in IClients :
       /\ req[c].pc = "inflight" /\ Last(requestTimestamps) = now
       /\ req[d].pc = "waiting" /\ req[d].timer > now
       /\ Len(requestTimestamps) = MAX_REQUESTS_PER_MINUTE
  /\ \E c, d \in BClients :
       /\ req[c].pc = "inflight" /\ Last(batchTimestamps) = now
       /\ req[d].pc = "waiting" /\ req[d].timer > now
       /\ Len(batchTimestamps) = BATCH_MAX_PER_MINUTE

\* ------------------------------------------------------------------------
\* C25: in one full run news is fetched for at most 200 candidates, all of
\* them survivors of the liquidity, growth and trend gates, and no candidate
\* without a news fetch has a strictly higher preliminary score (the score
\* with sentiment 0) than one that got one.
\* ------------------------------------------------------------------------
\* The enriched candidates of the run that pass the three gates.
Survivors(run) ==
  {run.enrichedPicks[i] : i \in {j \in DOMAIN run.enrichedPicks :
     /\ liquidityGate(run.enrichedPicks[j])
     /\ growthGate(run.enrichedPicks[j])
     /\ trendGate(run.enrichedPicks[j])}}

PreliminaryScore(pick) ==
  calculateAiScore(pick.buy_ratio, pick.change_percent, 0,
                   pick.eps_growth, pick.revenue_growth, pick.week_13_return)

C25_NewsForTopSurvivors ==
  RunCompleted =>
    LET run == output.run IN
    /\ Cardinality(run.fetched) <= NEWS_TARGETS
    /\ run.fetched \subseteq {pick.symbol : pick \in Survivors(run)}
    /\ \A with, without \in Survivors(run) :
         with.symbol \in run.fetched /\ without.symbol \notin run.fetched =>
           PreliminaryScore(without) <= PreliminaryScore(with)

\* A completed run with more survivors than news targets, the candidate left
\* without news being the one with the lower preliminary score and the one
\* enriched first.
C25_Witness ==
  /\ RunCompleted
  /\ Cardinality(output.run.fetched) = NEWS_TARGETS
  /\ \E with, without \in Survivors(output.run) :
       /\ with.symbol \in output.run.fetched
       /\ without.symbol \notin output.run.fetched
       /\ PreliminaryScore(without) < PreliminaryScore(with)
       /\ without.symbol < with.symbol

\* ------------------------------------------------------------------------
\* C26: no pick persisted by a full run has a sentiment score below -0.3: a
\* candidate whose (positive - negative) / total is below -0.3 is dropped
\* before the final scoring; one at exactly -0.3, or without news, is kept.
\* ------------------------------------------------------------------------
\* (positive - negative) / total >= -0.3 on the counts of a candidate, the
\* ratio of a candidate without news being 0.
NotStronglyBearish(pick) ==
  100 * (pick.news_positive_count - pick.news_negative_count)
    >= SENTIMENT_FLOOR * pick.news_total_count

\* The rows of the day of the run that has just returned.
RowsOfRun == {row \in ai_daily_picks : row.pick_date = output.run.today}

C26_NoStronglyBearishPick ==
  RunCompleted =>
    LET run == output.run IN
    /\ \A row \in RowsOfRun : row.cols["sentiment_score"] >= SENTIMENT_FLOOR
    /\ \A i \in DOMAIN run.filtered :
         (\E k \in DOMAIN run.picks : run.picks[k].symbol = run.filtered[i].symbol)
           <=> NotStronglyBearish(run.filtered[i])

\* A completed run that persisted a candidate with 3 negative articles out
\* of 10 (exactly -0.3) and one without news.
C26_Witness ==
  /\ RunCompleted
  /\ \E row \in RowsOfRun :
       /\ row.cols["news_total_count"] = 10
       /\ row.cols["news_negative_count"] = 3
       /\ row.cols["news_positive_count"] = 0
       /\ row.cols["sentiment_score"] = SENTIMENT_FLOOR
  /\ \E row \in RowsOfRun : row.cols["news_total_count"] = 0

\* ------------------------------------------------------------------------
\* C28: the gate survivors ranked below the news targets are not discarded:
\* they keep sentiment score 0, label Neutral and zero news counts, get their
\* final score and are persisted, so that one full run can persist more
\* picks than it fetched news for.
\* ------------------------------------------------------------------------
\* The pick of the list handed to the upsert for a symbol, if there is one.
PicksFor(run, symbol) == {k \in DOMAIN run.picks : run.picks[k].symbol = symbol}

\* The row a pick of the run has in the table.
RowOf(pick) ==
  {row \in RowsOfRun : row.symbol = pick.symbol /\ row.cols = ColsOf(pick)}

C28_SurvivorsWithoutNewsKept ==
  RunCompleted =>
    LET run == output.run IN
    \A pick \in Survivors(run) :
      pick.symbol \notin run.fetched =>
        /\ Cardinality(PicksFor(run, pick.symbol)) = 1
        /\ \A k \in PicksFor(run, pick.symbol) :
             /\ run.picks[k].sentiment_score = 0
             /\ run.picks[k].sentiment_label = "Neutral"
             /\ run.picks[k].news_positive_count = 0
             /\ run.picks[k].news_negative_count = 0
             /\ run.picks[k].news_total_count = 0
             /\ run.picks[k].ai_score = PreliminaryScore(pick)
             /\ run.picks[k].category = assignCategory(run.picks[k])
             /\ run.inserted = Len(run.picks) => RowOf(run.picks[k]) # {}

\* A completed run whose upsert wrote every chunk and left more rows than the
\* run fetched news for, one of them of a survivor without a news fetch.
C28_Witness ==
  /\ RunCompleted
  /\ output.run.inserted = Len(output.run.picks)
  /\ Cardinality(output.run.fetched) = NEWS_TARGETS
  /\ Cardinality(RowsOfRun) > NEWS_TARGETS
  /\ \E pick \in Survivors(output.run) :
       /\ pick.symbol \notin output.run.fetched
       /\ \E row \in RowsOfRun : row.symbol = pick.symbol

\* ------------------------------------------------------------------------
\* C27: the startup quick seed writes only when no pick exists for today and
\* persists at most 50 rows, so that after a quick seed alone the count of
\* today's picks never exceeds the guard threshold and the first full run of
\* the day is never short-circuited by the seed.
\* ------------------------------------------------------------------------
\* The quick seed of caller c has its bulkUpsertAiPicks executed in this step.
SeedWrites(c) ==
  runs[c].kind = "seed" /\ runs[c].pc = "saving" /\ runs'[c].pc # "saving"

\* Only the quick seed has written rows for the date.
SeedAlone(date) ==
  \A row \in ai_daily_picks :
    row.pick_date = date => row.cols["reason_text"] = FieldOf("seed", "p1", "reason_text")

\* The seed passes its guard only on an empty day.
C27_SeedGuard ==
  [][ \A c \in BClients :
        (runs[c].kind = "seed" /\ runs[c].pc = "guard" /\ runs'[c].pc = "building")
          => getAiPicksCount(runs[c].today) = 0 ]_vars

\* The seed hands at most QuickSeedSize rows to the upsert.
C27_SeedSize ==
  [][ \A c \in BClients : SeedWrites(c) => Len(PicksOf(runs[c])) <= QuickSeedSize ]_vars

\* After a seed alone the guard of a full run does not skip.
C27_SeedAloneBelowThreshold ==
  SeedAlone(Today) => ~GuardSkips(getAiPicksCount(Today))

C27_SeedWritesOnEmptyDay ==
  /\ [][ \A c \in BClients : SeedWrites(c) => getAiPicksCount(runs[c].today) = 0 ]_vars
  /\ C27_SeedSize
  /\ [](C27_SeedAloneBelowThreshold)

\* ------------------------------------------------------------------------
\* C29: while a connected frontend client has subscribed to a symbol and not
\* unsubscribed from it, the symbol stays in subscribedSymbols and keeps its
\* upstream subscription, whatever the other clients unsubscribe; subscribe
\* and unsubscribe are idempotent per symbol.
\* ------------------------------------------------------------------------
\* The symbols some connected client has subscribed to and not given up.
Wanted == UNION {frontend[f].wants : f \in {g \in FClients : frontend[g].connected}}

C29_WantedStaysSubscribed ==
  /\ Wanted \subseteq wsManager.subscribedSymbols
  /\ CanSend(WsState) => Wanted \subseteq sockets[wsManager.ws].upstream

C29_Idempotent ==
  \A symbol \in Symbols :
    /\ subscribe(subscribe(WsState, symbol), symbol) = subscribe(WsState, symbol)
    /\ unsubscribe(unsubscribe(WsState, symbol), symbol) = unsubscribe(WsState, symbol)

\* C29 as a whole.
C29_SubscriptionSharedByClients ==
  /\ C29_WantedStaysSubscribed
  /\ C29_Idempotent

\* ------------------------------------------------------------------------
\* C30: at most one reconnect timer is pending; every 'open' after a
\* reconnect re-sends a subscribe for each symbol of subscribedSymbols; after
\* disconnect() no reconnect is scheduled and no upstream connection is
\* opened, also when the 'close' event of the closed socket comes after
\* disconnect() has returned.
\* ------------------------------------------------------------------------
C30_OneTimer == timers <= 1 /\ (timers = 1 <=> wsManager.reconnectTimer)

C30_OpenResubscribes ==
  [][ \A id \in SocketIds :
        (id > 1 /\ sockets[id].readyState = "CONNECTING"
                /\ sockets'[id].readyState = "OPEN")
          => sockets'[id].upstream = wsManager'.subscribedSymbols ]_vars

C30_StoppedStaysStopped ==
  wsHist.stopped => timers = 0 /\ wsHist.opened = wsHist.openedAtStop

\* C30 as a whole.
C30_ReconnectDiscipline ==
  /\ [](C30_OneTimer)
  /\ C30_OpenResubscribes
  /\ [](C30_StoppedStaysStopped)

====
